---- MODULE Spec2Model ----
(***************************************************************************)
(* State-machine model of ore::analytics::SimmCalculator                    *)
(* (OREAnalytics/orea/simm/simmcalculator.cpp).                             *)
(*                                                                         *)
(* The constructor is a pipeline: filter Schedule records, split the CRIF   *)
(* records by regulation, post-process the regulations of every netting     *)
(* set, calculate SIMM for every (side, netting set, regulation), convert   *)
(* to the result currency, determine the winning regulations and populate   *)
(* the final results.  Every stage is an action; `phase' is the position of *)
(* the constructor.  A QL_REQUIRE that fails (or a std::out_of_range)       *)
(* unwinds the constructor: phase = "failed" and the members are destroyed. *)
(*                                                                         *)
(* QuantLib::Real values are held in fixed point, as integer multiples of   *)
(* 1/Unit, with products and quotients truncated toward zero.               *)
(***************************************************************************)
EXTENDS Integers, Sequences, FiniteSets, TLC

\* ------------------------------------------------------------------------
\* Bounds of the model
\* ------------------------------------------------------------------------
\* largest number of CRIF records in one input of Spec
MaxRecords == 3
\* largest number of CRIF records in one input of SpecRegs
MaxRegRecords == 2
\* most records of an input of SpecCalc
MaxCalcRecords == 3

\* ------------------------------------------------------------------------
\* Real arithmetic
\* ------------------------------------------------------------------------
Unit == 100

Abs(x) == IF x < 0 THEN -x ELSE x
Max(a, b) == IF a >= b THEN a ELSE b
Min(a, b) == IF a <= b THEN a ELSE b

\* quotient truncated toward zero, b > 0
TDiv(a, b) == IF a >= 0 THEN a \div b ELSE -((-a) \div b)

\* x * y and x / y on Reals
Mul(x, y) == TDiv(x * y, Unit)
Quot(x, y) == IF y > 0 THEN TDiv(x * Unit, y) ELSE -TDiv(x * Unit, -y)

RECURSIVE ISqrtBetween(_, _, _)
ISqrtBetween(n, lo, hi) ==
    IF lo >= hi THEN lo
    ELSE LET mid == (lo + hi + 1) \div 2
         IN  IF mid * mid <= n THEN ISqrtBetween(n, mid, hi)
             ELSE ISqrtBetween(n, lo, mid - 1)

\* std::sqrt on a non-negative Real (the root of a 32-bit integer is at most
\* 46340)
Sqrt(x) == ISqrtBetween(x * Unit, 0, Min(x * Unit, 46340))

\* QuantLib::close_enough(x, y): x == y, or the difference is within 42
\* machine epsilons relative to x or y (to their square when one of them is
\* zero).  Two different values of the fixed-point grid are never that
\* close.
close_enough(x, y) == x = y

\* the Real an integer amount stands for
ToReal(n) == n * Unit

\* sum of the function f over the set S of arguments
RECURSIVE SumOver(_, _)
SumOver(f, S) ==
    IF S = {} THEN 0
    ELSE LET x == CHOOSE y \in S : TRUE
         IN  f[x] + SumOver(f, S \ {x})

\* ------------------------------------------------------------------------
\* Enumerations (SimmConfiguration)
\* ------------------------------------------------------------------------
Sides == <<"Call", "Post">>

\* product classes without "All", in the order productClasses(false) lists
\* them
ProductClasses ==
    <<"RatesFX", "Credit", "Equity", "Commodity", "Empty",
      "AddOnNotionalFactor", "AddOnFixedAmount">>
\* risk classes without "All"
RiskClasses ==
    <<"InterestRate", "CreditQualifying", "CreditNonQualifying", "Equity",
      "Commodity", "FX">>
\* margin types without "All"
MarginTypes == <<"Delta", "Vega", "Curvature", "BaseCorr", "AdditionalIM">>

\* std::map<string, ...> visits regulations in the order of their names
RegulationOrder == <<"CFTC", "ESA", "Excluded", "SEC", "Unspecified">>
NettingSetOrder == <<"N1", "N2">>

Range(s) == {s[i] : i \in DOMAIN s}
IndexOf(s, x) == CHOOSE i \in DOMAIN s : s[i] = x

\* ------------------------------------------------------------------------
\* CRIF records
\* ------------------------------------------------------------------------
\* A CrifRecord.  collectRegulations and postRegulations are the
\* comma-separated strings of the CRIF, held as the sequence of their tags;
\* amount and amountUsd are Reals.
CrifRecord(ns, tid, pc, rt, q, b, l1, l2, amt, usd, ccy, creg, preg, im) ==
    [nettingSetDetails |-> ns, tradeId |-> tid, productClass |-> pc,
     riskType |-> rt, qualifier |-> q, bucket |-> b, label1 |-> l1,
     label2 |-> l2, amount |-> amt, amountUsd |-> usd, amountCurrency |-> ccy,
     collectRegulations |-> creg, postRegulations |-> preg, imModel |-> im]

\* CrifRecord::isSimmParameter
isSimmParameter(cr) ==
    cr.riskType \in {"AddOnFixedAmount", "AddOnNotionalFactor",
                     "ProductClassMultiplier"}

\* the fields two records are compared on when the amount currency is
\* ignored (CrifLoader::add with onDiffAmountCcy; the trade id is blanked by
\* the aggregating loader and the regulations by addCrifRecord)
RecordKey(cr) ==
    <<cr.nettingSetDetails, cr.productClass, cr.riskType, cr.qualifier,
      cr.bucket, cr.label1, cr.label2>>

\* SimmNetSensitivities::find(cr)
FindRecord(records, cr) == {e \in records : RecordKey(e) = RecordKey(cr)}

\* CrifLoader::add: the trade id is blanked (aggregateTrades) and the
\* amounts of a record that is already present are summed
LoaderAdd(records, cr) ==
    LET net == [cr EXCEPT !.tradeId = ""]
        old == FindRecord(records, net)
    IN  IF old = {} THEN records \cup {net}
        ELSE LET e == CHOOSE x \in old : TRUE
             IN  (records \ {e}) \cup
                 {[e EXCEPT !.amount = @ + net.amount,
                            !.amountUsd = @ + net.amountUsd]}

\* parseRegulationString: the set of tags of the string; an empty string
\* stands for "Unspecified"
parseRegulationString(regsString) ==
    IF Range(regsString) = {} THEN {"Unspecified"} ELSE Range(regsString)

\* std::map helpers: a map is a function on the set of its keys
EmptyMap == [k \in {} |-> 0]
Put(m, k, v) == [x \in DOMAIN m \cup {k} |-> IF x = k THEN v ELSE m[x]]
Erase(m, k) == [x \in DOMAIN m \ {k} |-> m[x]]

\* ------------------------------------------------------------------------
\* State
\* ------------------------------------------------------------------------
VARIABLES
    \* the constructor's arguments: simmNetSensitivities, calculationCcy,
    \* resultCcy, market, determineWinningRegulations, enforceIMRegulations
    args,
    \* position of the constructor
    phase,
    \* what aborted the constructor ("" while nothing has)
    error,
    simmNetSensitivities_,
    collectRegsIsEmpty_,
    postRegsIsEmpty_,
    \* <<side, netting set, regulation>> -> net records of the CrifLoader
    regSensitivities_,
    \* <<side, netting set, regulation>> -> trade ids
    tradeIds_,
    \* <<side, netting set, regulation>> -> SimmResults
    simmResults_,
    \* <<side, netting set>> -> regulation
    winningRegulations_,
    \* <<side, netting set>> -> [regulation, results]
    finalSimmResults_,
    \* side -> trade ids
    finalTradeIds_,
    \* the triples the calculation loop has still to visit, and the step of
    \* calculateRegulationSimm the head triple is at
    calcQueue,
    calcStep,
    \* the (side, netting set) pairs the winning-regulation loop has still
    \* to visit
    winQueue,
    \* the calculator calls that returned "applies", kept for inspection:
    \* <<side, netting set, regulation, productClass, riskClass, marginType>>
    applicable

vars ==
    <<args, phase, error, simmNetSensitivities_, collectRegsIsEmpty_,
      postRegsIsEmpty_, regSensitivities_, tradeIds_, simmResults_,
      winningRegulations_, finalSimmResults_, finalTradeIds_, calcQueue,
      calcStep, winQueue, applicable>>

\* ------------------------------------------------------------------------
\* Constructor, first loop: Schedule records and the regulation flags
\* ------------------------------------------------------------------------
\* the iteration without the test for Schedule records
FilterRecordKeepingSchedule(st, cr) ==
    LET ns == cr.nettingSetDetails
        c  == IF ns \notin DOMAIN st.collect
              THEN Put(st.collect, ns, cr.collectRegulations = <<>>)
              ELSE IF st.collect[ns] /\ cr.collectRegulations # <<>>
                   THEN Put(st.collect, ns, FALSE)
                   ELSE st.collect
        p  == IF ns \notin DOMAIN st.post
              THEN Put(st.post, ns, cr.postRegulations = <<>>)
              ELSE IF st.post[ns] /\ cr.postRegulations # <<>>
                   THEN Put(st.post, ns, FALSE)
                   ELSE st.post
    IN  [tmp |-> st.tmp \cup {cr}, collect |-> c, post |-> p]

\* one iteration of the loop over simmNetSensitivities_ : st holds tmp and
\* the two flag maps
FilterRecord(st, cr) ==
    IF cr.imModel = "Schedule" THEN st
    ELSE LET ns == cr.nettingSetDetails
             c  == IF ns \notin DOMAIN st.collect
                   THEN Put(st.collect, ns, cr.collectRegulations = <<>>)
                   ELSE IF st.collect[ns] /\ cr.collectRegulations # <<>>
                        THEN Put(st.collect, ns, FALSE)
                        ELSE st.collect
             p  == IF ns \notin DOMAIN st.post
                   THEN Put(st.post, ns, cr.postRegulations = <<>>)
                   ELSE IF st.post[ns] /\ cr.postRegulations # <<>>
                        THEN Put(st.post, ns, FALSE)
                        ELSE st.post
         IN  [tmp |-> st.tmp \cup {cr}, collect |-> c, post |-> p]

RECURSIVE FilterLoop(_, _)
FilterLoop(st, records) ==
    IF records = {} THEN st
    ELSE LET cr == CHOOSE x \in records : TRUE
         IN  FilterLoop(FilterRecord(st, cr), records \ {cr})

\* a failure that leaves the members as they were when it happened
AbortKeepingMembers(what) ==
    /\ phase' = "failed"
    /\ error' = what
    /\ UNCHANGED <<args, simmNetSensitivities_, collectRegsIsEmpty_,
                   postRegsIsEmpty_, regSensitivities_, tradeIds_,
                   simmResults_, winningRegulations_, finalSimmResults_,
                   finalTradeIds_, calcQueue, calcStep, winQueue, applicable>>

\* what a failed QL_REQUIRE leaves behind: the constructor is unwound and
\* the members are destroyed
Abort(what) ==
    /\ phase' = "failed"
    /\ error' = what
    /\ simmNetSensitivities_' = {}
    /\ collectRegsIsEmpty_' = EmptyMap
    /\ postRegsIsEmpty_' = EmptyMap
    /\ regSensitivities_' = EmptyMap
    /\ tradeIds_' = EmptyMap
    /\ simmResults_' = EmptyMap
    /\ winningRegulations_' = EmptyMap
    /\ finalSimmResults_' = EmptyMap
    /\ finalTradeIds_' = EmptyMap
    /\ calcQueue' = <<>>
    /\ calcStep' = "start"
    /\ winQueue' = <<>>
    /\ applicable' = {}
    /\ UNCHANGED args

\* ore::data::checkCurrency: the code is a valid ISO currency code
checkCurrency(code) == code \in {"USD", "EUR", "GBP"}

Filter ==
    /\ phase = "filter"
    /\ IF ~checkCurrency(args.calculationCcy)
       THEN Abort("calculation currency")
       ELSE IF ~checkCurrency(args.resultCcy)
       THEN Abort("result currency")
       ELSE LET st == FilterLoop([tmp |-> {}, collect |-> EmptyMap,
                                  post |-> EmptyMap],
                                 args.simmNetSensitivities)
            IN  /\ collectRegsIsEmpty_' = st.collect
                /\ postRegsIsEmpty_' = st.post
                /\ IF st.tmp = {}
                   THEN /\ phase' = "done"
                        /\ UNCHANGED simmNetSensitivities_
                   ELSE /\ phase' = "split"
                        /\ simmNetSensitivities_' = st.tmp
                /\ UNCHANGED <<args, error, regSensitivities_, tradeIds_,
                               simmResults_, winningRegulations_,
                               finalSimmResults_, finalTradeIds_, calcQueue,
                               calcStep, winQueue, applicable>>

\* ------------------------------------------------------------------------
\* addCrifRecord and the second loop of the constructor
\* ------------------------------------------------------------------------
\* the test without the flags of the netting set
SkipsRegulationWithoutFlags(r, enforceIMRegulations, collectRegsIsEmpty, postRegsIsEmpty) ==
    \/ r = "Excluded"
    \/ /\ r = "Unspecified"
       /\ enforceIMRegulations

\* the test without the clause on "Unspecified"
SkipsRegulationExcludedOnly(r, enforceIMRegulations, collectRegsIsEmpty, postRegsIsEmpty) ==
    r = "Excluded"

\* the regulation tags addCrifRecord skips
SkipsRegulation(r, enforceIMRegulations, collectRegsIsEmpty, postRegsIsEmpty) ==
    \/ r = "Excluded"
    \/ /\ r = "Unspecified"
       /\ enforceIMRegulations
       /\ ~(collectRegsIsEmpty /\ postRegsIsEmpty)

\* st holds regSensitivities_ and tradeIds_
RECURSIVE AddToRegulations(_, _, _, _)
AddToRegulations(st, regs, side, newCrifRecord) ==
    IF regs = {} THEN st
    ELSE LET r   == CHOOSE x \in regs : TRUE
             key == <<side, newCrifRecord.nettingSetDetails, r>>
             ids == IF isSimmParameter(newCrifRecord) THEN st.tids
                    ELSE Put(st.tids, key,
                             (IF key \in DOMAIN st.tids THEN st.tids[key]
                              ELSE {}) \cup {newCrifRecord.tradeId})
             old == IF key \in DOMAIN st.regs THEN st.regs[key] ELSE {}
         IN  AddToRegulations(
                 [regs |-> Put(st.regs, key, LoaderAdd(old, newCrifRecord)),
                  tids |-> ids],
                 regs \ {r}, side, newCrifRecord)

addCrifRecord(st, crifRecord, side, enforceIMRegulations) ==
    LET ns == crifRecord.nettingSetDetails
        collectRegsIsEmpty ==
            IF ns \in DOMAIN collectRegsIsEmpty_ THEN collectRegsIsEmpty_[ns]
            ELSE FALSE
        postRegsIsEmpty ==
            IF ns \in DOMAIN postRegsIsEmpty_ THEN postRegsIsEmpty_[ns]
            ELSE FALSE
        regsString ==
            IF enforceIMRegulations
            THEN (IF side = "Call" THEN crifRecord.collectRegulations
                  ELSE crifRecord.postRegulations)
            ELSE <<>>
        regs == parseRegulationString(regsString)
        newCrifRecord == [crifRecord EXCEPT !.collectRegulations = <<>>,
                                            !.postRegulations = <<>>]
        kept == {r \in regs :
                    ~SkipsRegulation(r, enforceIMRegulations,
                                     collectRegsIsEmpty, postRegsIsEmpty)}
    IN  AddToRegulations(st, kept, side, newCrifRecord)

RECURSIVE SplitLoop(_, _)
SplitLoop(st, records) ==
    IF records = {} THEN st
    ELSE LET cr == CHOOSE x \in records : TRUE
             s1 == addCrifRecord(st, cr, "Call", args.enforceIMRegulations)
             s2 == addCrifRecord(s1, cr, "Post", args.enforceIMRegulations)
         IN  SplitLoop(s2, records \ {cr})

Split ==
    /\ phase = "split"
    /\ LET st == SplitLoop([regs |-> EmptyMap, tids |-> EmptyMap],
                           simmNetSensitivities_)
       IN  /\ regSensitivities_' = st.regs
           /\ tradeIds_' = st.tids
    /\ phase' = "regulations"
    /\ UNCHANGED <<args, error, simmNetSensitivities_, collectRegsIsEmpty_,
                   postRegsIsEmpty_, simmResults_, winningRegulations_,
                   finalSimmResults_, finalTradeIds_, calcQueue, calcStep,
                   winQueue, applicable>>

\* ------------------------------------------------------------------------
\* Constructor, third loop: regulations of every (side, netting set)
\* ------------------------------------------------------------------------
\* every key the three-level maps can hold, in the order the maps visit them
AllTriples ==
    [i \in 1..(Len(Sides) * Len(NettingSetOrder) * Len(RegulationOrder)) |->
        LET n == i - 1
            perSide == Len(NettingSetOrder) * Len(RegulationOrder)
        IN  <<Sides[(n \div perSide) + 1],
              NettingSetOrder[((n % perSide) \div Len(RegulationOrder)) + 1],
              RegulationOrder[(n % Len(RegulationOrder)) + 1]>>]

AllPairs ==
    [i \in 1..(Len(Sides) * Len(NettingSetOrder)) |->
        <<Sides[((i - 1) \div Len(NettingSetOrder)) + 1],
          NettingSetOrder[((i - 1) % Len(NettingSetOrder)) + 1]>>]

\* the keys of a map, as the sequence a range-for visits
KeysInOrder(m, all) == SelectSeq(all, LAMBDA k : k \in DOMAIN m)

\* the regulations a (side, netting set) has in the map m
RegulationsOf(m, side, ns) ==
    {k[3] : k \in {t \in DOMAIN m : t[1] = side /\ t[2] = ns}}

\* the loop without the search in netRecordsSEC
RECURSIVE MergeCFTCIntoSECAlways(_, _)
MergeCFTCIntoSECAlways(netRecordsSEC, netRecordsCFTC) ==
    IF netRecordsCFTC = {} THEN netRecordsSEC
    ELSE LET cr == CHOOSE x \in netRecordsCFTC : TRUE
         IN  MergeCFTCIntoSECAlways(LoaderAdd(netRecordsSEC, cr),
                                    netRecordsCFTC \ {cr})

\* the loop over netRecordsCFTC: a CFTC record is added to SEC unless SEC
\* already holds it
RECURSIVE MergeCFTCIntoSEC(_, _)
MergeCFTCIntoSEC(netRecordsSEC, netRecordsCFTC) ==
    IF netRecordsCFTC = {} THEN netRecordsSEC
    ELSE LET cr == CHOOSE x \in netRecordsCFTC : TRUE
         IN  MergeCFTCIntoSEC(
                 IF FindRecord(netRecordsSEC, cr) = {}
                 THEN LoaderAdd(netRecordsSEC, cr)
                 ELSE netRecordsSEC,
                 netRecordsCFTC \ {cr})

\* body of the loop over the netting sets of a side
ProcessRegulations(m, side, ns) ==
    LET hasCFTC == "CFTC" \in RegulationsOf(m, side, ns)
        hasSEC  == "SEC" \in RegulationsOf(m, side, ns)
        merged  == IF hasCFTC /\ hasSEC
                   THEN Put(m, <<side, ns, "SEC">>,
                            MergeCFTCIntoSEC(m[<<side, ns, "SEC">>],
                                             m[<<side, ns, "CFTC">>]))
                   ELSE m
    IN  IF /\ "Unspecified" \in RegulationsOf(merged, side, ns)
           /\ Cardinality(RegulationsOf(merged, side, ns)) > 1
        THEN Erase(merged, <<side, ns, "Unspecified">>)
        ELSE merged

RECURSIVE RegulationsLoop(_, _)
RegulationsLoop(m, pairs) ==
    IF pairs = <<>> THEN m
    ELSE RegulationsLoop(
             IF RegulationsOf(m, Head(pairs)[1], Head(pairs)[2]) = {} THEN m
             ELSE ProcessRegulations(m, Head(pairs)[1], Head(pairs)[2]),
             Tail(pairs))

Regulations ==
    /\ phase = "regulations"
    /\ regSensitivities_' = RegulationsLoop(regSensitivities_, AllPairs)
    /\ calcQueue' = KeysInOrder(regSensitivities_', AllTriples)
    /\ calcStep' = "start"
    /\ phase' = "calculate"
    /\ UNCHANGED <<args, error, simmNetSensitivities_, collectRegsIsEmpty_,
                   postRegsIsEmpty_, tradeIds_, simmResults_,
                   winningRegulations_, finalSimmResults_, finalTradeIds_,
                   winQueue, applicable>>

\* ------------------------------------------------------------------------
\* SimmConfiguration: the read-only risk parameters
\* ------------------------------------------------------------------------
SimmVersions == <<"V1_0", "V2_1", "V2_2">>
VersionAtLeast(version, threshold) ==
    IndexOf(SimmVersions, version) >= IndexOf(SimmVersions, threshold)

\* risk weight RW
weight(rt, qualifier, label1) ==
    IF label1 = "10Y" THEN 2 * Unit ELSE Unit
\* curvature weight SF
curvatureWeight(rt, label1) == Unit \div 2
\* sigma and the historical volatility ratio are 1.0 where not applicable
sigma(rt, qualifier, label1) == Unit
historicalVolatilityRatio(rt) == IF rt = "EquityVol" THEN 2 * Unit ELSE Unit
concentrationThreshold(rt, qualifier) == 4 * Unit
\* correlation between two risk factors: 1 between a factor and itself,
\* otherwise by the level the two differ on (empty labels ask for the
\* correlation between two qualifiers or buckets)
correlation(rt1, q1, l1a, l2a, rt2, q2, l1b, l2b) ==
    IF rt1 # rt2 THEN 30
    ELSE IF q1 # q2 THEN 20
    ELSE IF l1a # l1b THEN 50
    ELSE IF l2a # l2b THEN 90
    ELSE Unit
correlationRiskClasses(rc1, rc2) == IF rc1 = rc2 THEN Unit ELSE 25
curvatureMarginScaling == 230
isValidRiskType(version, rt) ==
    rt = "BaseCorr" => VersionAtLeast(version, "V2_1")

\* ------------------------------------------------------------------------
\* Margin calculators
\* ------------------------------------------------------------------------
\* a set as the sequence an index of the container visits
RECURSIVE SeqOf(_)
SeqOf(S) ==
    IF S = {} THEN <<>>
    ELSE LET x == CHOOSE y \in S : TRUE
         IN  <<x>> \o SeqOf(S \ {x})

\* sum of the sequence s of Reals
RECURSIVE SumSeq(_)
SumSeq(s) == IF s = <<>> THEN 0 ELSE Head(s) + SumSeq(Tail(s))

\* Sum_i d[i] + Sum_{j < i} c[i][j] over the indices of the sequence d: the
\* shape of every "diagonal term plus cross terms with the earlier elements"
\* loop
PairwiseSum(d, c) ==
    SumSeq([i \in 1..Len(d) |->
               d[i] + SumSeq([j \in 1..(i - 1) |-> c[i][j]])])

\* what a calculator returns when the margin does not apply
NotApplicable == [margins |-> [b \in {"All"} |-> 0], applies |-> FALSE,
                  error |-> ""]

\* clamp of the sum of weighted sensitivities, S_b
Clamp(sumWs, k) == Max(Min(sumWs, k), -k)

\* the records of a risk type, and of one of its qualifiers
OfRiskType(netRecords, nettingSetDetails, pc, rt) ==
    {cr \in netRecords : /\ cr.nettingSetDetails = nettingSetDetails
                         /\ cr.productClass = pc
                         /\ cr.riskType = rt}
OfQualifier(netRecords, nettingSetDetails, pc, rt, qualifier) ==
    {cr \in OfRiskType(netRecords, nettingSetDetails, pc, rt) :
        cr.qualifier = qualifier}

\* the records of a range with a qualifier or in a bucket, and the
\* qualifiers and buckets of a range
WithQualifier(range, q) == {cr \in range : cr.qualifier = q}
InBucket(range, b) == {cr \in range : cr.bucket = b}
Qualifiers(range) == {cr.qualifier : cr \in range}
BucketNames(range) == {cr.bucket : cr \in range}

\* the qualifiers (currencies) of a set of risk types
QualifiersOf(netRecords, nettingSetDetails, pc, rts) ==
    Qualifiers({x \in netRecords :
                   /\ x.nettingSetDetails = nettingSetDetails
                   /\ x.productClass = pc
                   /\ x.riskType \in rts})

\* a concentration risk factor without its floor of one
ConcentrationRiskUnfloored(sumSensis, threshold) ==
    Sqrt(Abs(Quot(sumSensis, threshold)))

\* the concentration risk factor of the sum of sensitivities sumSensis
ConcentrationRisk(sumSensis, threshold) ==
    Max(Unit, Sqrt(Abs(Quot(sumSensis, threshold))))

\* the scaling function of the concentration risks of two sensitivities
ConcentrationRatio(crA, crB) == Quot(Min(crA, crB), Max(crA, crB))

\* Sum_b K_b^2 + Sum_{b # c} corr[b][c] g[b][c] S_b S_c over the sequence
\* names of qualifiers or buckets, with S_b the clamped sum of weighted
\* sensitivities; corr[i][j] and g[i][j] are the two factors of the cross
\* term of the i-th and the j-th name
AcrossNames(names, k, sumWeightedSensis, corr, g) ==
    PairwiseSum(
        [i \in 1..Len(names) |-> Mul(k[names[i]], k[names[i]])],
        [i \in 1..Len(names) |->
            [j \in 1..(i - 1) |->
                Mul(Mul(Mul(2 * Clamp(sumWeightedSensis[names[i]],
                                      k[names[i]]),
                            Clamp(sumWeightedSensis[names[j]], k[names[j]])),
                        corr[i][j]),
                    g[i][j])]])

\* correlations of the buckets that depend on which bucket the outer loop
\* is at: none when it is at the bucket picked here
BucketCorrelationsOneWay(rt, range, bs) ==
    [i \in 1..Len(bs) |->
        [j \in 1..(i - 1) |->
            IF bs[i] = (CHOOSE b \in Range(bs) : TRUE) THEN 0
            ELSE correlation(
                     rt, CHOOSE q \in Qualifiers(InBucket(range, bs[i])) : TRUE,
                     "", "",
                     rt, CHOOSE q \in Qualifiers(InBucket(range, bs[j])) : TRUE,
                     "", "")]]

\* the correlations of the buckets bs of a risk type, each by the first
\* of its qualifiers
BucketCorrelations(rt, range, bs) ==
    [i \in 1..Len(bs) |->
        [j \in 1..(i - 1) |->
            correlation(
                rt, CHOOSE q \in Qualifiers(InBucket(range, bs[i])) : TRUE,
                "", "",
                rt, CHOOSE q \in Qualifiers(InBucket(range, bs[j])) : TRUE,
                "", "")]]

\* no second factor
NoFactor(names) == [i \in 1..Len(names) |-> [j \in 1..(i - 1) |-> Unit]]

\* Risk_FX in the calculation currency taken like any other currency
neverSkipped(rt, q) == FALSE

\* ---- SimmCalculator::margin: Delta and Vega margin of a risk type ----
\* Risk_FX in the calculation currency is left out
skipped(rt, q) == rt = "FX" /\ q = args.calculationCcy

\* margin: the sensitivity of a record, scaled by sigma and by the
\* historical volatility ratio
marginSensitivity(rt, cr) ==
    Mul(Mul(cr.amountUsd, sigma(rt, cr.qualifier, cr.label1)),
        historicalVolatilityRatio(rt))

\* margin: the concentration risk of each qualifier of each bucket
marginConcentrationRisk(rt, range) ==
    [b \in BucketNames(range) |->
        [q \in {x \in Qualifiers(InBucket(range, b)) : ~skipped(rt, x)} |->
            ConcentrationRisk(
                SumOver([cr \in range |-> marginSensitivity(rt, cr)],
                        WithQualifier(InBucket(range, b), q)),
                concentrationThreshold(rt, q))]]

\* margin: the weighted sensitivity WS of each record that is not skipped
marginWeightedSensis(rt, range, concentrationRisk) ==
    [cr \in {x \in range : ~skipped(rt, x.qualifier)} |->
        Mul(Mul(weight(rt, cr.qualifier, cr.label1),
                marginSensitivity(rt, cr)),
            concentrationRisk[cr.bucket][cr.qualifier])]

\* margin: the cross term of the records o and i of a bucket
marginCross(rt, concentrationRisk, ws, o, i) ==
    Mul(Mul(Mul(2 * correlation(rt, o.qualifier, o.label1, o.label2,
                                rt, i.qualifier, i.label1, i.label2),
                ConcentrationRatio(concentrationRisk[o.bucket][o.qualifier],
                                   concentrationRisk[o.bucket][i.qualifier])),
            ws[o]), ws[i])

\* the sum of squares and cross terms of a bucket without its square root
marginOfBucketSquared(rt, concentrationRisk, ws, p) ==
    Max(PairwiseSum(
            [i \in 1..Len(p) |-> Mul(ws[p[i]], ws[p[i]])],
            [i \in 1..Len(p) |->
                [j \in 1..(i - 1) |->
                    marginCross(rt, concentrationRisk, ws, p[i], p[j])]]),
        0)

\* margin: the margin K_b of the bucket whose records are the sequence p
marginOfBucket(rt, concentrationRisk, ws, p) ==
    Sqrt(Max(PairwiseSum(
                 [i \in 1..Len(p) |-> Mul(ws[p[i]], ws[p[i]])],
                 [i \in 1..Len(p) |->
                     [j \in 1..(i - 1) |->
                         marginCross(rt, concentrationRisk, ws, p[i], p[j])]]),
             0))

\* margin: the margins by name, from the margins of the buckets
marginResult(rt, ws, bucketMargin, residualMargin, total) ==
    [margins |->
        [n \in (IF rt \in {"FX", "FXVol"} THEN Qualifiers(DOMAIN ws)
                ELSE DOMAIN bucketMargin \ {"Residual"})
               \cup (IF close_enough(residualMargin, 0) THEN {}
                     ELSE {"Residual"})
               \cup {"All"} |->
            IF n = "All" THEN total
            ELSE IF n = "Residual" /\ ~close_enough(residualMargin, 0)
                 THEN residualMargin
            ELSE IF rt \in {"FX", "FXVol"}
                 THEN Abs(SumOver(ws, WithQualifier(DOMAIN ws, n)))
            ELSE bucketMargin[n]],
     applies |-> TRUE, error |-> ""]

\* the aggregation with the residual bucket correlated like any other
marginAggregateResidualCorrelated(rt, range, others, ws, sumWeightedSensis, bucketMargin) ==
    marginResult(
        rt, ws, bucketMargin,
        IF "Residual" \in DOMAIN bucketMargin THEN bucketMargin["Residual"]
        ELSE 0,
        Sqrt(Max(AcrossNames(SeqOf(DOMAIN bucketMargin), bucketMargin,
                             sumWeightedSensis,
                             BucketCorrelations(rt, range,
                                                SeqOf(DOMAIN bucketMargin)),
                             NoFactor(SeqOf(DOMAIN bucketMargin))),
                 0)))

\* margin: from the margins of the buckets to the total, the residual
\* bucket apart
marginAggregate(rt, range, others, ws, sumWeightedSensis, bucketMargin) ==
    marginResult(
        rt, ws, bucketMargin,
        IF "Residual" \in DOMAIN bucketMargin THEN bucketMargin["Residual"]
        ELSE 0,
        Sqrt(Max(AcrossNames(others, bucketMargin, sumWeightedSensis,
                             BucketCorrelations(rt, range, others),
                             NoFactor(others)),
                 0))
        + (IF "Residual" \in DOMAIN bucketMargin
           THEN bucketMargin["Residual"] ELSE 0))

\* margin: from the weighted sensitivities to the margins of the buckets
marginBuckets(rt, range, concentrationRisk, ws) ==
    marginAggregate(
        rt, range, SeqOf(BucketNames(range) \ {"Residual"}), ws,
        [b \in BucketNames(range) |-> SumOver(ws, InBucket(DOMAIN ws, b))],
        [b \in BucketNames(range) |->
            marginOfBucket(rt, concentrationRisk, ws,
                           SeqOf(InBucket(DOMAIN ws, b)))])

\* margin: from the records of the risk type to the weighted sensitivities
marginOfRange(rt, range, concentrationRisk) ==
    IF range = {} THEN NotApplicable
    ELSE marginBuckets(rt, range, concentrationRisk,
                       marginWeightedSensis(rt, range, concentrationRisk))

margin(nettingSetDetails, pc, rt, netRecords) ==
    marginOfRange(
        rt, OfRiskType(netRecords, nettingSetDetails, pc, rt),
        marginConcentrationRisk(
            rt, OfRiskType(netRecords, nettingSetDetails, pc, rt)))

\* ---- SimmCalculator::irDeltaMargin ----
\* the concentration risk of each qualifier of the interest rate risk class,
\* from the records that count toward it
irConcentrationRisk(qualifiers, counted, rt) ==
    [q \in qualifiers |->
        ConcentrationRisk(
            SumOver([cr \in counted |-> cr.amountUsd],
                    WithQualifier(counted, q)),
            concentrationThreshold(rt, q))]

\* the correlations of the qualifiers qs of the interest rate risk class,
\* and the ratios of their concentration risks
irCorrelations(rt, qs) ==
    [i \in 1..Len(qs) |->
        [j \in 1..(i - 1) |->
            correlation(rt, qs[i], "", "", rt, qs[j], "", "")]]
irConcentrationRatios(qs, concentrationRisk) ==
    [i \in 1..Len(qs) |->
        [j \in 1..(i - 1) |->
            ConcentrationRatio(concentrationRisk[qs[i]],
                               concentrationRisk[qs[j]])]]

\* the margins by name of the interest rate risk class
irResult(qualifierMargin, total) ==
    [margins |-> [n \in DOMAIN qualifierMargin \cup {"All"} |->
                     IF n = "All" THEN total ELSE qualifierMargin[n]],
     applies |-> TRUE, error |-> ""]

\* weighted sensitivities with the cross currency basis scaled by the
\* concentration risk like the other two risk types
irDeltaWeightedSensisAllScaled(records, concentrationRisk) ==
    [cr \in records |->
        Mul(Mul(weight(cr.riskType, cr.qualifier, cr.label1), cr.amountUsd),
            concentrationRisk[cr.qualifier])]

\* irDeltaMargin: the weighted sensitivity of each record; the cross
\* currency basis is not scaled by the concentration risk
irDeltaWeightedSensis(records, concentrationRisk) ==
    [cr \in records |->
        IF cr.riskType = "XCcyBasis"
        THEN Mul(weight(cr.riskType, cr.qualifier, cr.label1), cr.amountUsd)
        ELSE Mul(Mul(weight(cr.riskType, cr.qualifier, cr.label1),
                     cr.amountUsd),
                 concentrationRisk[cr.qualifier])]

\* irDeltaMargin: the cross terms of the weighted sensitivity wsOther of
\* the risk type rt with the IRCurve records p of the qualifier q
irDeltaCrossWith(rt, q, ws, p, wsOther) ==
    SumSeq([i \in 1..Len(p) |->
               Mul(Mul(2 * correlation("IRCurve", q, "", "", rt, q, "", ""),
                       ws[p[i]]), wsOther)])

\* irDeltaMargin: the margin of the qualifier q, whose IRCurve records are
\* the sequence p and whose inflation and cross currency basis records are
\* infl and xccy
irDeltaOfQualifier(q, ws, p, infl, xccy) ==
    Sqrt(Max(
        PairwiseSum(
            [i \in 1..Len(p) |-> Mul(ws[p[i]], ws[p[i]])],
            [i \in 1..Len(p) |->
                [j \in 1..(i - 1) |->
                    Mul(Mul(Mul(2 * correlation("IRCurve", q, "", p[i].label2,
                                                "IRCurve", q, "", p[j].label2),
                                correlation("IRCurve", q, p[i].label1, "",
                                            "IRCurve", q, p[j].label1, "")),
                            ws[p[i]]), ws[p[j]])]])
        + (IF infl = {} THEN 0
           ELSE Mul(SumOver(ws, infl), SumOver(ws, infl))
                + irDeltaCrossWith("Inflation", q, ws, p, SumOver(ws, infl)))
        + (IF xccy = {} THEN 0
           ELSE Mul(SumOver(ws, xccy), SumOver(ws, xccy))
                + irDeltaCrossWith("XCcyBasis", q, ws, p, SumOver(ws, xccy))
                + (IF infl = {} THEN 0
                   ELSE Mul(Mul(2 * correlation("Inflation", q, "", "",
                                                "XCcyBasis", q, "", ""),
                                SumOver(ws, infl)), SumOver(ws, xccy)))),
        0))

\* irDeltaMargin: from the margins of the qualifiers to the total
irDeltaAggregate(qs, concentrationRisk, sumWeightedSensis, deltaMargin) ==
    irResult(deltaMargin,
             Sqrt(Max(AcrossNames(
                          qs, deltaMargin, sumWeightedSensis,
                          irCorrelations("IRCurve", qs),
                          irConcentrationRatios(qs, concentrationRisk)),
                      0)))

\* irDeltaMargin: from the weighted sensitivities to the margins of the
\* qualifiers
irDeltaQualifiers(qualifiers, ir, xccy, infl, concentrationRisk, ws) ==
    irDeltaAggregate(
        SeqOf(qualifiers), concentrationRisk,
        [q \in qualifiers |-> SumOver(ws, WithQualifier(DOMAIN ws, q))],
        [q \in qualifiers |->
            irDeltaOfQualifier(q, ws, SeqOf(WithQualifier(ir, q)),
                               WithQualifier(infl, q),
                               WithQualifier(xccy, q))])

\* irDeltaMargin: from the records of the three risk types to the weighted
\* sensitivities
irDeltaOfRanges(qualifiers, ir, xccy, infl, concentrationRisk) ==
    IF qualifiers = {} THEN NotApplicable
    ELSE IF \E q \in qualifiers :
                \/ Cardinality(WithQualifier(xccy, q)) >= 2
                \/ Cardinality(WithQualifier(infl, q)) >= 2
    THEN [NotApplicable EXCEPT !.error = "irDeltaMargin"]
    ELSE irDeltaQualifiers(
             qualifiers, ir, xccy, infl, concentrationRisk,
             irDeltaWeightedSensis(ir \cup xccy \cup infl,
                                   concentrationRisk))

irDeltaMargin(nettingSetDetails, pc, netRecords) ==
    irDeltaOfRanges(
        QualifiersOf(netRecords, nettingSetDetails, pc,
                     {"IRCurve", "XCcyBasis", "Inflation"}),
        OfRiskType(netRecords, nettingSetDetails, pc, "IRCurve"),
        OfRiskType(netRecords, nettingSetDetails, pc, "XCcyBasis"),
        OfRiskType(netRecords, nettingSetDetails, pc, "Inflation"),
        irConcentrationRisk(
            QualifiersOf(netRecords, nettingSetDetails, pc,
                         {"IRCurve", "XCcyBasis", "Inflation"}),
            {x \in netRecords :
                /\ x.nettingSetDetails = nettingSetDetails
                /\ x.productClass = pc
                /\ x.riskType \in {"IRCurve", "Inflation"}},
            "IRCurve"))

\* ---- SimmCalculator::irVegaMargin ----
\* irVegaMargin: the weighted sensitivity of each record
irVegaWeightedSensis(records, concentrationRisk) ==
    [cr \in records |->
        Mul(Mul(weight(cr.riskType, cr.qualifier, cr.label1), cr.amountUsd),
            concentrationRisk[cr.qualifier])]

\* irVegaMargin: the cross term of the records o and i of the qualifier q
irVegaCross(q, ws, o, i) ==
    Mul(Mul(2 * correlation(o.riskType, q, o.label1, "",
                            i.riskType, q, i.label1, ""),
            ws[o]), ws[i])

\* irVegaMargin: the margin of the qualifier q, whose IRVol and
\* InflationVol records are the sequences pIr and pInf
irVegaOfQualifier(q, ws, pIr, pInf) ==
    Sqrt(Max(
        PairwiseSum(
            [i \in 1..Len(pIr) |-> Mul(ws[pIr[i]], ws[pIr[i]])],
            [i \in 1..Len(pIr) |->
                [j \in 1..(i - 1) |-> irVegaCross(q, ws, pIr[i], pIr[j])]])
        + PairwiseSum(
            [i \in 1..Len(pInf) |->
                Mul(ws[pInf[i]], ws[pInf[i]])
                + SumSeq([k \in 1..Len(pIr) |->
                             irVegaCross(q, ws, pInf[i], pIr[k])])],
            [i \in 1..Len(pInf) |->
                [j \in 1..(i - 1) |-> irVegaCross(q, ws, pInf[i], pInf[j])]]),
        0))

\* irVegaMargin: from the margins of the qualifiers to the total
irVegaAggregate(qs, concentrationRisk, sumWeightedSensis, vegaMargin) ==
    irResult(vegaMargin,
             Sqrt(Max(AcrossNames(
                          qs, vegaMargin, sumWeightedSensis,
                          irCorrelations("IRVol", qs),
                          irConcentrationRatios(qs, concentrationRisk)),
                      0)))

\* irVegaMargin: from the weighted sensitivities to the margins of the
\* qualifiers
irVegaQualifiers(qualifiers, ir, inf, concentrationRisk, ws) ==
    irVegaAggregate(
        SeqOf(qualifiers), concentrationRisk,
        [q \in qualifiers |-> SumOver(ws, WithQualifier(DOMAIN ws, q))],
        [q \in qualifiers |->
            irVegaOfQualifier(q, ws, SeqOf(WithQualifier(ir, q)),
                              SeqOf(WithQualifier(inf, q)))])

\* irVegaMargin: from the records of the two risk types to the weighted
\* sensitivities
irVegaOfRanges(ir, inf, concentrationRisk) ==
    IF ir \cup inf = {} THEN NotApplicable
    ELSE irVegaQualifiers(Qualifiers(ir \cup inf), ir, inf,
                          concentrationRisk,
                          irVegaWeightedSensis(ir \cup inf,
                                               concentrationRisk))

irVegaMargin(nettingSetDetails, pc, netRecords) ==
    irVegaOfRanges(
        OfRiskType(netRecords, nettingSetDetails, pc, "IRVol"),
        OfRiskType(netRecords, nettingSetDetails, pc, "InflationVol"),
        irConcentrationRisk(
            QualifiersOf(netRecords, nettingSetDetails, pc,
                         {"IRVol", "InflationVol"}),
            {x \in netRecords :
                /\ x.nettingSetDetails = nettingSetDetails
                /\ x.productClass = pc
                /\ x.riskType \in {"IRVol", "InflationVol"}},
            "IRVol"))

\* SimmCalculator::lambda: (q^2 - 1)(1 + theta) - theta with q the 99.5%
\* quantile of the standard normal distribution, q^2 - 1 = 5.63
lambda(theta) == Mul(563, Unit + theta) - theta

\* the multiplier of the side Call for both sides
MultiplierOfCall(side) == 1

\* multiplier of the curvature sensitivities, -1 if the side is Post
Multiplier(side) == IF side = "Call" THEN 1 ELSE -1

\* sumWs + lambda(theta) * k with theta = min(sumWs / sumAbsWs, 0)
WithLambda(sumWs, sumAbsWs, k) ==
    sumWs + Mul(lambda(Min(Quot(sumWs, sumAbsWs), 0)), k)

\* ---- SimmCalculator::irCurvatureMargin ----
\* inflation vega enters the interest rate curvature from SIMM 2.0 on
irCurvatureWithInflation ==
    VersionAtLeast(args.version, "V1_0") /\ args.version # "V1_0"

\* irCurvatureMargin: the weighted sensitivity of each record
irCurvatureWeightedSensis(records, multiplier) ==
    [cr \in records |->
        Mul(curvatureWeight(cr.riskType, cr.label1),
            cr.amountUsd * multiplier)]

\* irCurvatureMargin: the cross term of the weighted sensitivities wsO and
\* wsI with correlation corr
CurvatureCross(corr, wsO, wsI) == Mul(Mul(Mul(2 * corr, corr), wsO), wsI)

\* irCurvatureMargin: the margin of the qualifier q, whose IRVol records
\* are the sequence p and whose inflation weighted sensitivity is infWs
irCurvatureOfQualifier(q, ws, p, infWs) ==
    Sqrt(Max(
        PairwiseSum(
            [i \in 1..Len(p) |-> Mul(ws[p[i]], ws[p[i]])],
            [i \in 1..Len(p) |->
                [j \in 1..(i - 1) |->
                    CurvatureCross(
                        correlation("IRVol", q, p[i].label1, "",
                                    "IRVol", q, p[j].label1, ""),
                        ws[p[i]], ws[p[j]])]])
        + (IF irCurvatureWithInflation
           THEN Mul(infWs, infWs)
                + SumSeq([i \in 1..Len(p) |->
                      CurvatureCross(
                          correlation("InflationVol", q, "", "",
                                      "IRVol", q, p[i].label1, ""),
                          infWs, ws[p[i]])])
           ELSE 0),
        0))

\* irCurvatureMargin: from the margins of the qualifiers to the total
irCurvatureAggregate(qs, sumWeightedSensis, sumWs, sumAbsWs, curvatureMargins) ==
    IF close_enough(sumAbsWs, 0)
    THEN [margins |-> [b \in {"All"} |-> 0], applies |-> TRUE, error |-> ""]
    ELSE irResult(
             curvatureMargins,
             Mul(curvatureMarginScaling,
                 Max(WithLambda(
                         sumWs, sumAbsWs,
                         Sqrt(Max(AcrossNames(
                                      qs, curvatureMargins, sumWeightedSensis,
                                      irCorrelations("IRVol", qs),
                                      irCorrelations("IRVol", qs)),
                                  0))),
                     0)))

\* irCurvatureMargin: from the weighted sensitivities of the qualifiers to
\* their margins
irCurvatureQualifiers(qualifiers, ir, ws, infWs, sumWeightedSensis) ==
    irCurvatureAggregate(
        SeqOf(qualifiers), sumWeightedSensis,
        SumOver(sumWeightedSensis, qualifiers),
        SumOver([q \in qualifiers |->
                    SumOver([cr \in ir |-> Abs(ws[cr])],
                            WithQualifier(ir, q))
                    + Abs(infWs[q])], qualifiers),
        [q \in qualifiers |->
            irCurvatureOfQualifier(q, ws, SeqOf(WithQualifier(ir, q)),
                                   infWs[q])])

\* irCurvatureMargin: from the weighted sensitivities of the records to
\* those of the qualifiers
irCurvatureSums(qualifiers, ir, ws, infWs) ==
    irCurvatureQualifiers(
        qualifiers, ir, ws, infWs,
        [q \in qualifiers |-> SumOver(ws, WithQualifier(ir, q)) + infWs[q]])

\* an interest rate curvature that applies only with IRVol records
irCurvatureOfIRVolOnly(qualifiers, ir, inf, ws) ==
    IF Qualifiers(ir) = {} THEN NotApplicable
    ELSE irCurvatureSums(
             qualifiers, ir, ws,
             [q \in qualifiers |->
                 IF irCurvatureWithInflation
                 THEN SumOver(ws, WithQualifier(inf, q))
                 ELSE 0])

\* irCurvatureMargin: from the records of the two risk types to the
\* weighted sensitivities
irCurvatureOfRanges(qualifiers, ir, inf, ws) ==
    IF qualifiers = {} THEN NotApplicable
    ELSE irCurvatureSums(
             qualifiers, ir, ws,
             [q \in qualifiers |->
                 IF irCurvatureWithInflation
                 THEN SumOver(ws, WithQualifier(inf, q))
                 ELSE 0])

irCurvatureMargin(nettingSetDetails, pc, side, netRecords) ==
    irCurvatureOfRanges(
        QualifiersOf(netRecords, nettingSetDetails, pc,
                     {"IRVol", "InflationVol"}),
        OfRiskType(netRecords, nettingSetDetails, pc, "IRVol"),
        OfRiskType(netRecords, nettingSetDetails, pc, "InflationVol"),
        irCurvatureWeightedSensis(
            {x \in netRecords :
                /\ x.nettingSetDetails = nettingSetDetails
                /\ x.productClass = pc
                /\ x.riskType \in {"IRVol", "InflationVol"}},
            Multiplier(side)))

\* ---- SimmCalculator::curvatureMargin ----
\* curvatureMargin: the weighted curvature of each record as the inner loop
\* computes it
curvatureInner(rt, range, multiplier) ==
    [cr \in range |->
        Mul(curvatureWeight(rt, cr.label1),
            Mul(cr.amountUsd * multiplier,
                sigma(rt, cr.qualifier, cr.label1)))]

\* the outer loop without the rule of SIMM 2.2 for Equity bucket 12
curvatureOuterKept(rt, wsInner) == wsInner

\* and as the outer loop does: zero for Equity bucket 12 from SIMM 2.2
curvatureOuter(rt, wsInner) ==
    [cr \in DOMAIN wsInner |->
        IF /\ VersionAtLeast(args.version, "V2_2")
           /\ cr.bucket = "12"
           /\ rt = "EquityVol"
        THEN 0 ELSE wsInner[cr]]

\* curvatureMargin: the margin K_b of the bucket whose records are the
\* sequence p
curvatureOfBucket(rt, wsInner, wsOuter, p) ==
    Sqrt(Max(PairwiseSum(
                 [i \in 1..Len(p) |-> Mul(wsOuter[p[i]], wsOuter[p[i]])],
                 [i \in 1..Len(p) |->
                     [j \in 1..(i - 1) |->
                         CurvatureCross(
                             correlation(
                                 rt, p[i].qualifier, p[i].label1, p[i].label2,
                                 rt, p[j].qualifier, p[j].label1, p[j].label2),
                             wsOuter[p[i]], wsInner[p[j]])]]),
             0))

\* curvatureMargin: the sum of the absolute weighted curvatures of a
\* bucket, by qualifier; the risk factors of a qualifier are netted unless
\* rfLabels
curvatureSumAbs(wsOuter, records, rfLabels) ==
    SumOver([q \in Qualifiers(records) |->
                Abs(SumOver([cr \in records |->
                                IF rfLabels THEN Abs(wsOuter[cr])
                                ELSE wsOuter[cr]],
                            WithQualifier(records, q)))],
            Qualifiers(records))

\* the margin of a group of buckets without its floor of zero
curvatureOfGroupSigned(sumSensis, sumAbsSensis, k) ==
    IF close_enough(sumAbsSensis, 0) THEN 0
    ELSE WithLambda(sumSensis, sumAbsSensis, k)

\* curvatureMargin: the margin of a group of buckets, zero when there are
\* no sensitivities
curvatureOfGroup(sumSensis, sumAbsSensis, k) ==
    IF close_enough(sumAbsSensis, 0) THEN 0
    ELSE Max(WithLambda(sumSensis, sumAbsSensis, k), 0)

\* the margins by name with the total scaled as the interest rate total is
curvatureResultScaled(rt, wsOuter, k, residualAbsSum, main, residual) ==
    [margins |->
        [n \in (IF rt \in {"FX", "FXVol"} THEN Qualifiers(DOMAIN wsOuter)
                ELSE (DOMAIN k \ {"Residual"})
                     \cup (IF close_enough(residualAbsSum, 0) THEN {}
                           ELSE {"Residual"}))
               \cup {"All"} |->
            IF n = "All" THEN Mul(curvatureMarginScaling, main + residual)
            ELSE IF rt \in {"FX", "FXVol"}
                 THEN Abs(SumOver(wsOuter, WithQualifier(DOMAIN wsOuter, n)))
            ELSE IF n = "Residual" THEN residual
            ELSE k[n]],
     applies |-> TRUE, error |-> ""]

\* curvatureMargin: the margins by name
curvatureResult(rt, wsOuter, k, residualAbsSum, main, residual) ==
    [margins |->
        [n \in (IF rt \in {"FX", "FXVol"} THEN Qualifiers(DOMAIN wsOuter)
                ELSE (DOMAIN k \ {"Residual"})
                     \cup (IF close_enough(residualAbsSum, 0) THEN {}
                           ELSE {"Residual"}))
               \cup {"All"} |->
            IF n = "All" THEN main + residual
            ELSE IF rt \in {"FX", "FXVol"}
                 THEN Abs(SumOver(wsOuter, WithQualifier(DOMAIN wsOuter, n)))
            ELSE IF n = "Residual" THEN residual
            ELSE k[n]],
     applies |-> TRUE, error |-> ""]

\* curvatureMargin: from the margins of the buckets to the total
curvatureAggregate(rt, range, wsOuter, bs, sumWeighted, sumAbsWeighted, k) ==
    curvatureResult(
        rt, wsOuter, k,
        IF "Residual" \in DOMAIN k THEN sumAbsWeighted["Residual"] ELSE 0,
        curvatureOfGroup(
            SumOver(sumWeighted, Range(bs)), SumOver(sumAbsWeighted, Range(bs)),
            Sqrt(Max(AcrossNames(bs, k, sumWeighted,
                                 BucketCorrelations(rt, range, bs),
                                 BucketCorrelations(rt, range, bs)),
                     0))),
        IF "Residual" \in DOMAIN k
        THEN curvatureOfGroup(sumWeighted["Residual"],
                              sumAbsWeighted["Residual"], k["Residual"])
        ELSE 0)

\* curvatureMargin: from the weighted curvatures to the margins of the
\* buckets
curvatureBuckets(rt, range, wsInner, wsOuter, rfLabels) ==
    curvatureAggregate(
        rt, range, wsOuter, SeqOf(BucketNames(range) \ {"Residual"}),
        [b \in BucketNames(range) |-> SumOver(wsOuter, InBucket(range, b))],
        [b \in BucketNames(range) |->
            curvatureSumAbs(wsOuter, InBucket(range, b), rfLabels)],
        [b \in BucketNames(range) |->
            curvatureOfBucket(rt, wsInner, wsOuter,
                              SeqOf(InBucket(range, b)))])

\* curvatureMargin: from the records of the risk type to the weighted
\* curvatures
curvatureOfRange(rt, range, wsInner, rfLabels) ==
    IF range = {} THEN NotApplicable
    ELSE curvatureBuckets(rt, range, wsInner, curvatureOuter(rt, wsInner),
                          rfLabels)

curvatureMargin(nettingSetDetails, pc, rt, side, netRecords, rfLabels) ==
    curvatureOfRange(
        rt, OfRiskType(netRecords, nettingSetDetails, pc, rt),
        curvatureInner(rt, OfRiskType(netRecords, nettingSetDetails, pc, rt),
                       Multiplier(side)),
        rfLabels)

\* ------------------------------------------------------------------------
\* SimmResults: (productClass, riskClass, marginType, bucket) -> margin
\* ------------------------------------------------------------------------
Key(pc, rc, mt, b) == <<pc, rc, mt, b>>
has(results, pc, rc, mt, b) == Key(pc, rc, mt, b) \in DOMAIN results
get(results, pc, rc, mt, b) == results[Key(pc, rc, mt, b)]

\* SimmResults::add: a margin that is already there is added to, unless it
\* is to be overwritten
ResultsAdd(results, pc, rc, mt, b, im, overwrite) ==
    IF has(results, pc, rc, mt, b) /\ ~overwrite
    THEN [results EXCEPT ![Key(pc, rc, mt, b)] = @ + im]
    ELSE Put(results, Key(pc, rc, mt, b), im)

\* several add calls with distinct keys, overwriting
ResultsAddAll(results, entries) ==
    [k \in DOMAIN results \cup DOMAIN entries |->
        IF k \in DOMAIN entries THEN entries[k] ELSE results[k]]

\* SimmResults::convert: every margin is divided by the spot rate
\* the conversion of the leaves alone, the aggregates left in USD
ResultsConvertLeaves(results, fxSpot) ==
    [k \in DOMAIN results |->
        IF "All" \in {k[1], k[2], k[3]} THEN results[k]
        ELSE Quot(results[k], fxSpot)]

ResultsConvert(results, fxSpot) ==
    [k \in DOMAIN results |-> Quot(results[k], fxSpot)]

\* the results of a triple, empty when the map has none yet
ResultsOf(m, triple) == IF triple \in DOMAIN m THEN m[triple] ELSE EmptyMap

\* ------------------------------------------------------------------------
\* calculateRegulationSimm, first part: the margins of every product class
\* ------------------------------------------------------------------------
Leaf(rc, mt, p) == [rc |-> rc, mt |-> mt, p |-> p]

\* the calculators calculateRegulationSimm calls for a product class, in the
\* order it calls them
LeafMargins(nsd, pc, side, netRecords) ==
    <<Leaf("InterestRate", "Delta", irDeltaMargin(nsd, pc, netRecords)),
      Leaf("FX", "Delta", margin(nsd, pc, "FX", netRecords)),
      Leaf("CreditQualifying", "Delta",
           margin(nsd, pc, "CreditQ", netRecords)),
      Leaf("CreditNonQualifying", "Delta",
           margin(nsd, pc, "CreditNonQ", netRecords)),
      Leaf("Equity", "Delta", margin(nsd, pc, "Equity", netRecords)),
      Leaf("Commodity", "Delta", margin(nsd, pc, "Commodity", netRecords)),
      Leaf("InterestRate", "Vega", irVegaMargin(nsd, pc, netRecords)),
      Leaf("FX", "Vega", margin(nsd, pc, "FXVol", netRecords)),
      Leaf("CreditQualifying", "Vega",
           margin(nsd, pc, "CreditVol", netRecords)),
      Leaf("CreditNonQualifying", "Vega",
           margin(nsd, pc, "CreditVolNonQ", netRecords)),
      Leaf("Equity", "Vega", margin(nsd, pc, "EquityVol", netRecords)),
      Leaf("Commodity", "Vega", margin(nsd, pc, "CommodityVol", netRecords)),
      Leaf("InterestRate", "Curvature",
           irCurvatureMargin(nsd, pc, side, netRecords)),
      Leaf("FX", "Curvature",
           curvatureMargin(nsd, pc, "FXVol", side, netRecords, FALSE)),
      Leaf("CreditQualifying", "Curvature",
           curvatureMargin(nsd, pc, "CreditVol", side, netRecords, TRUE)),
      Leaf("CreditNonQualifying", "Curvature",
           curvatureMargin(nsd, pc, "CreditVolNonQ", side, netRecords, TRUE)),
      Leaf("Equity", "Curvature",
           curvatureMargin(nsd, pc, "EquityVol", side, netRecords, FALSE)),
      Leaf("Commodity", "Curvature",
           curvatureMargin(nsd, pc, "CommodityVol", side, netRecords, FALSE))>>
    \o (IF isValidRiskType(args.version, "BaseCorr")
        THEN <<Leaf("CreditQualifying", "BaseCorr",
                    margin(nsd, pc, "BaseCorr", netRecords))>>
        ELSE <<>>)

\* SimmCalculator::add of a map of bucket margins
AddMargins(results, pc, rc, mt, margins) ==
    ResultsAddAll(results,
        [k \in {Key(pc, rc, mt, b) : b \in DOMAIN margins} |-> margins[k[4]]])

\* the margins of a product class go to the results, applying or not
RECURSIVE AddLeavesUnchecked(_, _, _)
AddLeavesUnchecked(results, pc, leaves) ==
    IF leaves = <<>> THEN results
    ELSE AddLeavesUnchecked(
             AddMargins(results, pc, Head(leaves).rc, Head(leaves).mt,
                        Head(leaves).p.margins),
             pc, Tail(leaves))

\* the margins of a product class go to the results when they apply
RECURSIVE AddLeaves(_, _, _)
AddLeaves(results, pc, leaves) ==
    IF leaves = <<>> THEN results
    ELSE AddLeaves(
             IF Head(leaves).p.applies
             THEN AddMargins(results, pc, Head(leaves).rc, Head(leaves).mt,
                             Head(leaves).p.margins)
             ELSE results,
             pc, Tail(leaves))

\* the product classes of the net records, as the loop over the
\* ProductClassTag index visits them
ProductClassesOf(netRecords) ==
    SelectSeq(ProductClasses,
              LAMBDA pc : \E cr \in netRecords : cr.productClass = pc)

\* st holds the results, the applicability flags and the error of the loop
RECURSIVE ProductClassLoop(_, _, _, _, _)
ProductClassLoop(st, pcs, nsd, side, netRecords) ==
    IF pcs = <<>> \/ st.error # "" THEN st
    ELSE LET pc == Head(pcs)
             leaves == LeafMargins(nsd, pc, side, netRecords)
             failed == {i \in DOMAIN leaves : leaves[i].p.error # ""}
         IN  IF failed # {}
             THEN [st EXCEPT !.error =
                      leaves[CHOOSE i \in failed : TRUE].p.error]
             ELSE ProductClassLoop(
                      [results |-> AddLeaves(st.results, pc, leaves),
                       flags |-> st.flags \cup
                           {<<pc, leaves[i].rc, leaves[i].mt>> :
                               i \in {j \in DOMAIN leaves :
                                         leaves[j].p.applies}},
                       error |-> ""],
                      Tail(pcs), nsd, side, netRecords)

\* CrifLoader::hasCrifRecords and the search for a fixed add-on
hasCrifRecords(netRecords) == \E cr \in netRecords : ~isSimmParameter(cr)
hasFixedAddOn(netRecords) ==
    \E cr \in netRecords : cr.riskType = "AddOnFixedAmount"

\* the calculation of a triple reading the records of every regulation of
\* its side and netting set
CalculateMarginsOfNettingSet ==
    /\ phase = "calculate"
    /\ calcQueue # <<>>
    /\ calcStep = "start"
    /\ LET triple == Head(calcQueue)
           netRecords ==
               UNION {regSensitivities_[u] :
                         u \in {x \in DOMAIN regSensitivities_ :
                                    x[1] = triple[1] /\ x[2] = triple[2]}}
           st == ProductClassLoop(
                     [results |-> ResultsOf(simmResults_, triple),
                      flags |-> {}, error |-> ""],
                     ProductClassesOf(netRecords), triple[2], triple[1],
                     netRecords)
       IN  IF ~(hasCrifRecords(netRecords) \/ hasFixedAddOn(netRecords))
           THEN /\ calcQueue' = Tail(calcQueue)
                /\ UNCHANGED <<args, phase, error, simmNetSensitivities_,
                               collectRegsIsEmpty_, postRegsIsEmpty_,
                               regSensitivities_, tradeIds_, simmResults_,
                               winningRegulations_, finalSimmResults_,
                               finalTradeIds_, calcStep, winQueue,
                               applicable>>
           ELSE IF st.error # ""
           THEN Abort(st.error)
           ELSE /\ simmResults_' =
                       IF st.results = EmptyMap THEN simmResults_
                       ELSE Put(simmResults_, triple, st.results)
                /\ applicable' = applicable \cup
                       {<<triple[1], triple[2], triple[3], f[1], f[2], f[3]>> :
                           f \in st.flags}
                /\ calcStep' = "populateResults"
                /\ UNCHANGED <<args, phase, error, simmNetSensitivities_,
                               collectRegsIsEmpty_, postRegsIsEmpty_,
                               regSensitivities_, tradeIds_,
                               winningRegulations_, finalSimmResults_,
                               finalTradeIds_, calcQueue, winQueue>>

\* the loop over the regulations of a netting set reaches a triple: it is
\* calculated when it has CRIF records or a fixed add-on
CalculateMargins ==
    /\ phase = "calculate"
    /\ calcQueue # <<>>
    /\ calcStep = "start"
    /\ LET triple == Head(calcQueue)
           netRecords == regSensitivities_[triple]
           st == ProductClassLoop(
                     [results |-> ResultsOf(simmResults_, triple),
                      flags |-> {}, error |-> ""],
                     ProductClassesOf(netRecords), triple[2], triple[1],
                     netRecords)
       IN  IF ~(hasCrifRecords(netRecords) \/ hasFixedAddOn(netRecords))
           THEN /\ calcQueue' = Tail(calcQueue)
                /\ UNCHANGED <<args, phase, error, simmNetSensitivities_,
                               collectRegsIsEmpty_, postRegsIsEmpty_,
                               regSensitivities_, tradeIds_, simmResults_,
                               winningRegulations_, finalSimmResults_,
                               finalTradeIds_, calcStep, winQueue,
                               applicable>>
           ELSE IF st.error # ""
           THEN Abort(st.error)
           ELSE /\ simmResults_' =
                       IF st.results = EmptyMap THEN simmResults_
                       ELSE Put(simmResults_, triple, st.results)
                /\ applicable' = applicable \cup
                       {<<triple[1], triple[2], triple[3], f[1], f[2], f[3]>> :
                           f \in st.flags}
                /\ calcStep' = "populateResults"
                /\ UNCHANGED <<args, phase, error, simmNetSensitivities_,
                               collectRegsIsEmpty_, postRegsIsEmpty_,
                               regSensitivities_, tradeIds_,
                               winningRegulations_, finalSimmResults_,
                               finalTradeIds_, calcQueue, winQueue>>

\* ------------------------------------------------------------------------
\* populateResults: the higher level margins of a triple
\* ------------------------------------------------------------------------
\* sqrt(sum_r IM_r^2 + sum_{r # s} corr_rs IM_r IM_s) over the risk classes
\* that have the margin (pc, rc, mt, "All")
AcrossRiskClasses(results, pc, mt) ==
    LET rcs == SelectSeq(RiskClasses,
                         LAMBDA rc : has(results, pc, rc, mt, "All"))
        im == [i \in 1..Len(rcs) |-> get(results, pc, rcs[i], mt, "All")]
    IN  Sqrt(Max(PairwiseSum(
                     [i \in 1..Len(rcs) |-> Mul(im[i], im[i])],
                     [i \in 1..Len(rcs) |->
                         [j \in 1..(i - 1) |->
                             Mul(Mul(2 * correlationRiskClasses(rcs[i],
                                                                rcs[j]),
                                     im[i]), im[j])]]), 0))

\* the margin of one of the keys only
SumOfOneKey(results, keys) ==
    IF keys \cap DOMAIN results = {} THEN 0
    ELSE results[CHOOSE k \in keys \cap DOMAIN results : TRUE]

\* sum of the margins a set of keys has in the results
SumOfKeys(results, keys) ==
    SumOver(results, keys \cap DOMAIN results)

populateResults(results) ==
    LET pcs == Range(ProductClasses)
        rcs == Range(RiskClasses)
        mts == Range(MarginTypes)
        \* margin of a risk class: the sum over the margin types
        r1 == ResultsAddAll(results,
                [k \in {Key(x[1], x[2], "All", "All") :
                           x \in {y \in pcs \X rcs : \E mt \in mts :
                                     has(results, y[1], y[2], mt, "All")}} |->
                    SumOfKeys(results,
                              {Key(k[1], k[2], mt, "All") : mt \in mts})])
        \* margin of a product class: across the risk classes
        r2 == ResultsAddAll(r1,
                [k \in {Key(pc, "All", "All", "All") :
                           pc \in {x \in pcs : \E rc \in rcs :
                                      has(r1, x, rc, "All", "All")}} |->
                    AcrossRiskClasses(r1, k[1], "All")])
        \* overall margin of the portfolio
        r3 == ResultsAddAll(r2,
                [k \in {Key("All", "All", "All", "All")} |->
                    SumOfKeys(r2, {Key(pc, "All", "All", "All") : pc \in pcs})])
        \* across risk class, for each product class and margin type
        r4 == ResultsAddAll(r3,
                [k \in {Key(x[1], "All", x[2], "All") :
                           x \in {y \in pcs \X mts : \E rc \in rcs :
                                     has(r3, y[1], rc, y[2], "All")}} |->
                    AcrossRiskClasses(r3, k[1], k[3])])
        \* across product class, for each risk class and margin type
        r5 == ResultsAddAll(r4,
                [k \in {Key("All", x[1], x[2], "All") :
                           x \in {y \in rcs \X mts : \E pc \in pcs :
                                     has(r4, pc, y[1], y[2], "All")}} |->
                    SumOfKeys(r4, {Key(pc, k[2], k[3], "All") : pc \in pcs})])
        \* across product class and margin type, for each risk class
        r6 == ResultsAddAll(r5,
                [k \in {Key("All", rc, "All", "All") :
                           rc \in {y \in rcs : \E pc \in pcs :
                                      has(r5, pc, y, "All", "All")}} |->
                    SumOfKeys(r5, {Key(pc, k[2], "All", "All") : pc \in pcs})])
        \* across product class and risk class, for each margin type
        r7 == ResultsAddAll(r6,
                [k \in {Key("All", "All", mt, "All") :
                           mt \in {y \in mts : \E pc \in pcs :
                                      has(r6, pc, "All", y, "All")}} |->
                    SumOfKeys(r6, {Key(pc, "All", k[3], "All") : pc \in pcs})])
    IN  r7

\* the step to the additional margin without the aggregation
PopulateResultsSkipped ==
    /\ phase = "calculate"
    /\ calcQueue # <<>>
    /\ calcStep = "populateResults"
    /\ simmResults_' =
           Put(simmResults_, Head(calcQueue),
               ResultsOf(simmResults_, Head(calcQueue)))
    /\ calcStep' = "calcAddMargin"
    /\ UNCHANGED <<args, phase, error, simmNetSensitivities_,
                   collectRegsIsEmpty_, postRegsIsEmpty_, regSensitivities_,
                   tradeIds_, winningRegulations_, finalSimmResults_,
                   finalTradeIds_, calcQueue, winQueue, applicable>>

PopulateResults ==
    /\ phase = "calculate"
    /\ calcQueue # <<>>
    /\ calcStep = "populateResults"
    /\ simmResults_' =
           Put(simmResults_, Head(calcQueue),
               populateResults(ResultsOf(simmResults_, Head(calcQueue))))
    /\ calcStep' = "calcAddMargin"
    /\ UNCHANGED <<args, phase, error, simmNetSensitivities_,
                   collectRegsIsEmpty_, postRegsIsEmpty_, regSensitivities_,
                   tradeIds_, winningRegulations_, finalSimmResults_,
                   finalTradeIds_, calcQueue, winQueue, applicable>>

\* ------------------------------------------------------------------------
\* calcAddMargin: the additional margin of a triple
\* ------------------------------------------------------------------------
\* parseSimmProductClass: the product class a qualifier names
parseSimmProductClass(qualifier) ==
    IF qualifier \in Range(ProductClasses) \cup {"All"} THEN qualifier
    ELSE "Invalid"

\* the add calls without the one at portfolio level
AddAdditionalIMWithoutTotal(results, pc, im) ==
    LET a1 == ResultsAdd(results, pc, "All", "AdditionalIM", "All", im, FALSE)
        a2 == ResultsAdd(a1, pc, "All", "All", "All", im, FALSE)
        a3 == ResultsAdd(a2, "All", "All", "AdditionalIM", "All", im, FALSE)
    IN  a3

\* the four add calls every additional margin makes, none overwriting
AddAdditionalIM(results, pc, im) ==
    LET a1 == ResultsAdd(results, pc, "All", "AdditionalIM", "All", im, FALSE)
        a2 == ResultsAdd(a1, pc, "All", "All", "All", im, FALSE)
        a3 == ResultsAdd(a2, "All", "All", "AdditionalIM", "All", im, FALSE)
        a4 == ResultsAdd(a3, "All", "All", "All", "All", im, FALSE)
    IN  a4

\* st holds the results and the error of calcAddMargin
\* first loop: scaled additional margin, risk type ProductClassMultiplier
RECURSIVE MultiplierLoop(_, _)
MultiplierLoop(st, records) ==
    IF records = <<>> \/ st.error # "" THEN st
    ELSE LET cr == Head(records)
             qpc == parseSimmProductClass(cr.qualifier)
         IN  IF qpc = "Invalid"
             THEN [st EXCEPT !.error = "parseSimmProductClass"]
             ELSE IF ~has(st.results, qpc, "All", "All", "All")
             THEN MultiplierLoop(st, Tail(records))
             ELSE IF ~(cr.amount >= 0)
             THEN [st EXCEPT !.error = "ProductClassMultiplier"]
             ELSE LET im == get(st.results, qpc, "All", "All", "All")
                      pcmMargin == Mul(cr.amount - Unit, im)
                  IN  MultiplierLoop(
                          [st EXCEPT !.results =
                              AddAdditionalIM(@, qpc, pcmMargin)],
                          Tail(records))

\* the second loop stopping after the first fixed amount
FixedAmountLoopFirstOnly(st, records) ==
    IF records = <<>> \/ st.error # "" THEN st
    ELSE [st EXCEPT !.results =
             AddAdditionalIM(@, "AddOnFixedAmount", Head(records).amountUsd)]

\* second loop: fixed amounts, risk type AddOnFixedAmount
RECURSIVE FixedAmountLoop(_, _)
FixedAmountLoop(st, records) ==
    IF records = <<>> \/ st.error # "" THEN st
    ELSE FixedAmountLoop(
             [st EXCEPT !.results =
                 AddAdditionalIM(@, "AddOnFixedAmount",
                                 Head(records).amountUsd)],
             Tail(records))

\* the third loop without the requirement on the number of notionals
RECURSIVE NotionalFactorLoopAnyCount(_, _, _, _)
NotionalFactorLoopAnyCount(st, records, nsd, netRecords) ==
    IF records = <<>> \/ st.error # "" THEN st
    ELSE LET cr == Head(records)
             pQualifierIt == OfQualifier(netRecords, nsd, "Empty", "Notional",
                                         cr.qualifier)
             count == Cardinality(pQualifierIt)
         IN  IF count >= 1
             THEN LET notional == (CHOOSE x \in pQualifierIt : TRUE).amountUsd
                      factor == cr.amount
                      notionalFactorMargin ==
                          Quot(Mul(notional, factor), 100 * Unit)
                  IN  NotionalFactorLoopAnyCount(
                          [st EXCEPT !.results =
                              AddAdditionalIM(@, "AddOnNotionalFactor",
                                              notionalFactorMargin)],
                          Tail(records), nsd, netRecords)
             ELSE NotionalFactorLoopAnyCount(st, Tail(records), nsd,
                                             netRecords)

\* third loop: percentage of notional, risk types AddOnNotionalFactor and
\* Notional
RECURSIVE NotionalFactorLoop(_, _, _, _)
NotionalFactorLoop(st, records, nsd, netRecords) ==
    IF records = <<>> \/ st.error # "" THEN st
    ELSE LET cr == Head(records)
             pQualifierIt == OfQualifier(netRecords, nsd, "Empty", "Notional",
                                         cr.qualifier)
             count == Cardinality(pQualifierIt)
         IN  IF ~(count < 2)
             THEN [st EXCEPT !.error = "Notional"]
             ELSE IF count = 1
             THEN LET notional == (CHOOSE x \in pQualifierIt : TRUE).amountUsd
                      factor == cr.amount
                      notionalFactorMargin ==
                          Quot(Mul(notional, factor), 100 * Unit)
                  IN  NotionalFactorLoop(
                          [st EXCEPT !.results =
                              AddAdditionalIM(@, "AddOnNotionalFactor",
                                              notionalFactorMargin)],
                          Tail(records), nsd, netRecords)
             ELSE NotionalFactorLoop(st, Tail(records), nsd, netRecords)

calcAddMargin(results, nsd, netRecords) ==
    LET s1 == MultiplierLoop([results |-> results, error |-> ""],
                  SeqOf(OfRiskType(netRecords, nsd, "Empty",
                                   "ProductClassMultiplier")))
        s2 == FixedAmountLoop(s1,
                  SeqOf(OfRiskType(netRecords, nsd, "Empty",
                                   "AddOnFixedAmount")))
        s3 == NotionalFactorLoop(s2,
                  SeqOf(OfRiskType(netRecords, nsd, "Empty",
                                   "AddOnNotionalFactor")), nsd, netRecords)
    IN  s3

CalcAddMargin ==
    /\ phase = "calculate"
    /\ calcQueue # <<>>
    /\ calcStep = "calcAddMargin"
    /\ LET triple == Head(calcQueue)
           st == calcAddMargin(simmResults_[triple], triple[2],
                               regSensitivities_[triple])
       IN  IF st.error # ""
           THEN Abort(st.error)
           ELSE /\ simmResults_' = Put(simmResults_, triple, st.results)
                /\ calcQueue' = Tail(calcQueue)
                /\ calcStep' = "start"
                /\ UNCHANGED <<args, phase, error, simmNetSensitivities_,
                               collectRegsIsEmpty_, postRegsIsEmpty_,
                               regSensitivities_, tradeIds_,
                               winningRegulations_, finalSimmResults_,
                               finalTradeIds_, winQueue, applicable>>

\* ------------------------------------------------------------------------
\* convert: from USD to the result currency
\* ------------------------------------------------------------------------
\* what stops convert, "" when nothing does
ConvertError ==
    IF ~args.market.set THEN "market not set"
    ELSE IF ~args.market.hasQuote THEN "rate not found"
    ELSE IF ~(args.market.fxSpot > 0) THEN "spot rate must be positive"
    ELSE ""

\* the pairs the loop over simmResults_ visits
PairsOf(m) ==
    SelectSeq(AllPairs,
              LAMBDA pr : \E t \in DOMAIN m : t[1] = pr[1] /\ t[2] = pr[2])

\* the conversion as the end of the calculation, no selection after it
ConvertAndStop ==
    /\ phase = "calculate"
    /\ calcQueue = <<>>
    /\ IF args.resultCcy # "USD" /\ ConvertError # ""
       THEN Abort(ConvertError)
       ELSE /\ simmResults_' =
                   IF args.resultCcy = "USD" THEN simmResults_
                   ELSE [t \in DOMAIN simmResults_ |->
                            ResultsConvert(simmResults_[t],
                                           args.market.fxSpot)]
            /\ phase' = "done"
            /\ UNCHANGED <<args, error, simmNetSensitivities_,
                           collectRegsIsEmpty_, postRegsIsEmpty_,
                           regSensitivities_, tradeIds_, winningRegulations_,
                           finalSimmResults_, finalTradeIds_, calcQueue,
                           calcStep, winQueue, applicable>>

Convert ==
    /\ phase = "calculate"
    /\ calcQueue = <<>>
    /\ IF args.resultCcy # "USD" /\ ConvertError # ""
       THEN Abort(ConvertError)
       ELSE /\ simmResults_' =
                   IF args.resultCcy = "USD" THEN simmResults_
                   ELSE [t \in DOMAIN simmResults_ |->
                            ResultsConvert(simmResults_[t],
                                           args.market.fxSpot)]
            /\ IF args.determineWinningRegulations
               THEN /\ phase' = "winning"
                    /\ winQueue' = PairsOf(simmResults_)
               ELSE /\ phase' = "done"
                    /\ UNCHANGED winQueue
            /\ UNCHANGED <<args, error, simmNetSensitivities_,
                           collectRegsIsEmpty_, postRegsIsEmpty_,
                           regSensitivities_, tradeIds_, winningRegulations_,
                           finalSimmResults_, finalTradeIds_, calcQueue,
                           calcStep, applicable>>

\* ------------------------------------------------------------------------
\* Winning regulations
\* ------------------------------------------------------------------------
\* std::numeric_limits<Real>::min(), the smallest positive double: no margin
\* of the fixed-point grid lies between it and zero, `im > min' holds exactly
\* when im > 0, and QuantLib::close_enough(im, min) exactly when im is zero
RealMin == 0

\* the priority of the regulations, highest first
RegulationPriority == <<"SEC", "ESA", "CFTC", "Unspecified", "Excluded">>

\* getWinningRegulation: the regulation of the list that comes first in the
\* priority
getWinningRegulation(winningRegulations) ==
    RegulationPriority[
        CHOOSE i \in DOMAIN RegulationPriority :
            /\ RegulationPriority[i] \in Range(winningRegulations)
            /\ \A j \in 1..(i - 1) :
                   RegulationPriority[j] \notin Range(winningRegulations)]

\* the overall margin of a regulation
OverallMargin(results) == get(results, "All", "All", "All", "All")

\* the loop that collects the margins and finds the highest one
RECURSIVE HighestMargin(_, _)
HighestMargin(winningMargin, margins) ==
    IF margins = <<>> THEN winningMargin
    ELSE HighestMargin(IF Head(margins) > winningMargin THEN Head(margins)
                       ELSE winningMargin, Tail(margins))

\* the regulations of a (side, netting set) in the results, in map order
RegulationsInOrder(m, side, ns) ==
    SelectSeq(RegulationOrder, LAMBDA r : <<side, ns, r>> \in DOMAIN m)

\* every regulation of the pair, whatever its margin
WinningRegulationsAll(m, side, ns) == RegulationsInOrder(m, side, ns)

\* the regulations under which the highest margin is found
WinningRegulations(m, side, ns) ==
    LET regs == RegulationsInOrder(m, side, ns)
        nettingSetMargins ==
            [r \in Range(regs) |-> OverallMargin(m[<<side, ns, r>>])]
        winningMargin ==
            HighestMargin(RealMin,
                          [i \in 1..Len(regs) |-> nettingSetMargins[regs[i]]])
    IN  SelectSeq(regs,
            LAMBDA r : close_enough(nettingSetMargins[r], winningMargin))

DetermineWinningRegulation ==
    /\ phase = "winning"
    /\ winQueue # <<>>
    /\ LET side == Head(winQueue)[1]
           ns == Head(winQueue)[2]
           winningRegulations == WinningRegulations(simmResults_, side, ns)
       IN  IF winningRegulations = <<>>
           THEN Abort("std::out_of_range")
           ELSE /\ winningRegulations_' =
                       Put(winningRegulations_, <<side, ns>>,
                           IF Len(winningRegulations) > 1
                           THEN getWinningRegulation(winningRegulations)
                           ELSE winningRegulations[1])
                /\ winQueue' = Tail(winQueue)
                /\ UNCHANGED <<args, phase, error, simmNetSensitivities_,
                               collectRegsIsEmpty_, postRegsIsEmpty_,
                               regSensitivities_, tradeIds_, simmResults_,
                               finalSimmResults_, finalTradeIds_, calcQueue,
                               calcStep, applicable>>

\* ------------------------------------------------------------------------
\* populateFinalResults
\* ------------------------------------------------------------------------
\* trade ids of the winning regulations of a side
FinalTradeIds(winningRegs, side) ==
    UNION {tradeIds_[<<side, pr[2], winningRegs[pr]>>] :
              pr \in {x \in DOMAIN winningRegs :
                         /\ x[1] = side
                         /\ <<side, x[2], winningRegs[x]>> \in DOMAIN tradeIds_}}

PopulateFinalResults ==
    /\ phase = "winning"
    /\ winQueue = <<>>
    /\ finalTradeIds_' =
           [side \in {pr[1] : pr \in DOMAIN winningRegulations_} |->
               FinalTradeIds(winningRegulations_, side)]
    /\ finalSimmResults_' =
           [pr \in Range(PairsOf(simmResults_)) |->
               LET reg == winningRegulations_[pr]
               IN  [regulation |-> reg,
                    results |-> IF <<pr[1], pr[2], reg>> \in DOMAIN simmResults_
                                THEN simmResults_[<<pr[1], pr[2], reg>>]
                                ELSE EmptyMap]]
    /\ phase' = "done"
    /\ UNCHANGED <<args, error, simmNetSensitivities_, collectRegsIsEmpty_,
                   postRegsIsEmpty_, regSensitivities_, tradeIds_,
                   simmResults_, winningRegulations_, calcQueue, calcStep,
                   winQueue, applicable>>

\* populateFinalResults called with another regulation as the winner of
\* every (side, netting set): the final results follow it
PopulateFinalResultsOfSomeRegulation ==
    /\ phase \in {"done", "final"}
    /\ \E r \in {"SEC", "Unspecified"} :
           LET winningRegs == [pr \in Range(PairsOf(simmResults_)) |-> r]
           IN  /\ winningRegulations_' = winningRegs
               /\ finalTradeIds_' =
                      [side \in DOMAIN finalTradeIds_
                                \cup {pr[1] : pr \in DOMAIN winningRegs} |->
                          FinalTradeIds(winningRegs, side)]
               /\ finalSimmResults_' =
                      [pr \in Range(PairsOf(simmResults_)) |->
                          [regulation |-> winningRegs[pr],
                           results |->
                               LET t == CHOOSE x \in DOMAIN simmResults_ :
                                            x[1] = pr[1] /\ x[2] = pr[2]
                               IN  simmResults_[t]]]
    /\ phase' = "final"
    /\ UNCHANGED <<args, error, simmNetSensitivities_, collectRegsIsEmpty_,
                   postRegsIsEmpty_, regSensitivities_, tradeIds_,
                   simmResults_, calcQueue, calcStep, winQueue, applicable>>

\* the public populateFinalResults(winningRegs), called on the calculator
\* once it is constructed, with the regulation r as the winner of every
\* (side, netting set) that has results
PopulateFinalResultsWith ==
    /\ phase \in {"done", "final"}
    /\ \E r \in {"SEC", "Unspecified"} :
           LET winningRegs == [pr \in Range(PairsOf(simmResults_)) |-> r]
           IN  /\ winningRegulations_' = winningRegs
               /\ finalTradeIds_' =
                      [side \in DOMAIN finalTradeIds_
                                \cup {pr[1] : pr \in DOMAIN winningRegs} |->
                          FinalTradeIds(winningRegs, side)]
               /\ finalSimmResults_' =
                      [pr \in Range(PairsOf(simmResults_)) |->
                          [regulation |-> winningRegs[pr],
                           results |->
                               IF <<pr[1], pr[2], winningRegs[pr]>>
                                      \in DOMAIN simmResults_
                               THEN simmResults_[<<pr[1], pr[2],
                                                   winningRegs[pr]>>]
                               ELSE EmptyMap]]
    /\ phase' = "final"
    /\ UNCHANGED <<args, error, simmNetSensitivities_, collectRegsIsEmpty_,
                   postRegsIsEmpty_, regSensitivities_, tradeIds_,
                   simmResults_, calcQueue, calcStep, winQueue, applicable>>

\* ------------------------------------------------------------------------
\* Inputs
\* ------------------------------------------------------------------------
\* a sensitivity of netting set N1 without regulations
Sensi(tid, pc, rt, q, b, l1, usd) ==
    CrifRecord("N1", tid, pc, rt, q, b, l1, "", ToReal(usd), ToReal(usd),
               "USD", <<>>, <<>>, "SIMM")
\* a SIMM parameter or a notional of netting set N1: product class Empty
Param(rt, q, l1, amt, usd) ==
    CrifRecord("N1", "", "Empty", rt, q, "", l1, "", amt, usd, "USD",
               <<>>, <<>>, "SIMM")

\* the records the inputs of Spec are drawn from
MarginRecords ==
    {Sensi("T1", "RatesFX", "IRCurve", "USD", "", "2Y", 3),
     Sensi("T2", "RatesFX", "FX", "EUR", "", "", 4),
     Sensi("T3", "Equity", "Equity", "ISSA", "1", "", -3),
     Sensi("T3", "Equity", "EquityVol", "ISSA", "12", "1Y", 2),
     Sensi("T4", "Credit", "CreditQ", "ISSB", "Residual", "5Y", 2),
     Sensi("T4", "Credit", "BaseCorr", "IDX", "", "", 1),
     Sensi("T5", "RatesFX", "IRVol", "USD", "", "2Y", 2),
     Sensi("T6", "RatesFX", "XCcyBasis", "USD", "", "", 1),
     Sensi("T6", "RatesFX", "XCcyBasis", "USD", "", "b", 2),
     Param("ProductClassMultiplier", "RatesFX", "", ToReal(2), ToReal(2)),
     Param("ProductClassMultiplier", "RatesFX", "b", ToReal(3), ToReal(3)),
     Param("ProductClassMultiplier", "Equity", "", ToReal(-1), ToReal(-1)),
     Param("ProductClassMultiplier", "Commodity", "", ToReal(-1), ToReal(-1)),
     Param("AddOnFixedAmount", "", "", ToReal(4), ToReal(4)),
     Param("AddOnFixedAmount", "", "b", ToReal(-9), ToReal(-9)),
     Param("AddOnNotionalFactor", "TRADEX", "", ToReal(5), ToReal(5)),
     Param("Notional", "TRADEX", "", ToReal(200), ToReal(200)),
     Param("Notional", "TRADEX", "b", ToReal(100), ToReal(100))}

\* a market with the quote USD/resultCcy at the given spot rate
MarketAt(fxSpot) == [set |-> TRUE, hasQuote |-> TRUE, fxSpot |-> fxSpot]

Arguments(records, resultCcy, market, determine, enforce) ==
    [simmNetSensitivities |-> records, calculationCcy |-> "USD",
     resultCcy |-> resultCcy, market |-> market, version |-> "V2_2",
     determineWinningRegulations |-> determine,
     enforceIMRegulations |-> enforce]

\* the subsets of S with at most n elements
UpTo(S, n) == {T \in SUBSET S : Cardinality(T) <= n}

MarginInputs ==
    {Arguments(recs, x[1], x[2], x[3], x[4]) :
        recs \in UpTo(MarginRecords, MaxRecords),
        x \in {<<"USD", MarketAt(Unit), TRUE, FALSE>>,
               <<"USD", [set |-> FALSE, hasQuote |-> FALSE, fxSpot |-> 0],
                 FALSE, TRUE>>,
               <<"EUR", MarketAt(2 * Unit), TRUE, TRUE>>,
               <<"EUR", MarketAt(0), TRUE, FALSE>>,
               <<"EUR", MarketAt(-Unit), FALSE, FALSE>>,
               <<"EUR", [set |-> FALSE, hasQuote |-> FALSE, fxSpot |-> 0],
                 FALSE, FALSE>>,
               <<"EUR", [set |-> TRUE, hasQuote |-> FALSE, fxSpot |-> 0],
                 FALSE, TRUE>>,
               <<"XXX", MarketAt(Unit), TRUE, FALSE>>}}
    \cup {[Arguments(recs, "USD", MarketAt(Unit), TRUE, FALSE)
              EXCEPT !.calculationCcy = "XXX"] :
             recs \in UpTo(MarginRecords, MaxRecords)}

\* the records the inputs of SpecRegs are drawn from: a few sensitivities
\* under the regulations of RegulationPairs
WithRegulations(cr, pair) ==
    [cr EXCEPT !.collectRegulations = pair[1], !.postRegulations = pair[2]]

RateSensi ==
    Sensi("T1", "RatesFX", "IRCurve", "USD", "", "2Y", 3)
EquitySensi ==
    Sensi("T2", "Equity", "Equity", "ISSA", "1", "", 2)
OtherNettingSet ==
    [Sensi("T3", "RatesFX", "IRCurve", "USD", "", "2Y", 1)
        EXCEPT !.nettingSetDetails = "N2"]
OtherCurrency ==
    [Sensi("T4", "RatesFX", "IRCurve", "USD", "", "2Y", 1)
        EXCEPT !.amountCurrency = "EUR"]
ScheduleSensi ==
    [Sensi("T5", "RatesFX", "IRCurve", "USD", "", "2Y", 7)
        EXCEPT !.imModel = "Schedule"]
FixedAddOn(usd) ==
    Param("AddOnFixedAmount", "", "", ToReal(usd), ToReal(usd))

NoRegs == <<<<>>, <<>>>>
RegulationRecords ==
    {WithRegulations(RateSensi, pair) :
        pair \in {NoRegs,
                  <<<<"CFTC">>, <<"SEC">>>>,
                  <<<<"SEC">>, <<"CFTC", "SEC">>>>,
                  <<<<"CFTC", "SEC">>, <<>>>>,
                  <<<<"ESA">>, <<"Unspecified", "ESA">>>>,
                  <<<<"Excluded">>, <<"Excluded", "ESA">>>>,
                  <<<<"Unspecified">>, <<>>>>}}
    \cup {WithRegulations(EquitySensi, pair) :
        pair \in {<<<<"CFTC">>, <<"SEC">>>>,
                  <<<<"CFTC", "SEC">>, <<>>>>,
                  <<<<"ESA">>, <<"Unspecified", "ESA">>>>}}
    \cup {WithRegulations(FixedAddOn(-4), pair) :
        pair \in {NoRegs,
                  <<<<"CFTC">>, <<"SEC">>>>,
                  <<<<"SEC">>, <<"CFTC", "SEC">>>>,
                  <<<<"ESA">>, <<"Unspecified", "ESA">>>>}}
    \cup {WithRegulations(FixedAddOn(0), pair) :
        pair \in {<<<<"CFTC">>, <<"SEC">>>>}}
    \cup {WithRegulations(OtherNettingSet, pair) :
        pair \in {NoRegs, <<<<"ESA">>, <<"Unspecified", "ESA">>>>}}
    \cup {WithRegulations(OtherCurrency, pair) :
        pair \in {<<<<"CFTC">>, <<"SEC">>>>,
                  <<<<"SEC">>, <<"CFTC", "SEC">>>>}}
    \cup {WithRegulations(ScheduleSensi, pair) :
        pair \in {NoRegs, <<<<"CFTC">>, <<"SEC">>>>}}

RegulationInputs ==
    {Arguments(recs, "USD", MarketAt(Unit), determine, enforce) :
        recs \in UpTo(RegulationRecords, MaxRegRecords),
        determine \in BOOLEAN, enforce \in BOOLEAN}

\* the records the inputs of SpecCalc are drawn from: sensitivities of
\* several buckets and qualifiers of a risk type, for the margin calculators
CalcRecords ==
    {Sensi("T1", "Equity", "Equity", "ISSA", "1", "", 3),
     Sensi("T1", "Equity", "Equity", "ISSB", "2", "", 5),
     Sensi("T1", "Equity", "Equity", "ISSC", "Residual", "", 2),
     Sensi("T2", "RatesFX", "FX", "EUR", "", "", 4),
     Sensi("T2", "RatesFX", "FX", "GBP", "", "", -6),
     Sensi("T2", "RatesFX", "FX", "USD", "", "", 7),
     Sensi("T3", "Equity", "EquityVol", "ISSA", "12", "1Y", 2),
     Sensi("T3", "Equity", "EquityVol", "ISSD", "12", "2Y", -6),
     Sensi("T3", "Equity", "EquityVol", "ISSB", "1", "10Y", 5),
     Sensi("T3", "Equity", "EquityVol", "ISSC", "Residual", "2Y", -3),
     Sensi("T4", "RatesFX", "IRVol", "USD", "", "2Y", 2),
     Sensi("T4", "RatesFX", "IRVol", "EUR", "", "10Y", -3),
     Sensi("T4", "RatesFX", "InflationVol", "USD", "", "1Y", 4),
     Sensi("T4", "RatesFX", "FXVol", "EURUSD", "", "1Y", 8),
     Sensi("T5", "RatesFX", "IRCurve", "USD", "", "2Y", 5),
     Sensi("T5", "RatesFX", "Inflation", "USD", "", "", 6),
     Sensi("T5", "RatesFX", "Inflation", "USD", "", "b", -2),
     Sensi("T6", "RatesFX", "XCcyBasis", "USD", "", "", 4),
     Sensi("T6", "RatesFX", "XCcyBasis", "USD", "", "b", 3),
     Sensi("T7", "Credit", "IRVol", "USD", "", "2Y", 3)}

\* the inputs of SpecCalc: results in USD, under SIMM 2.2 and under SIMM 2.1
CalcInputs ==
    {[Arguments(recs, "USD", MarketAt(Unit), x[2], FALSE)
         EXCEPT !.version = x[1]] :
        recs \in UpTo(CalcRecords, MaxCalcRecords),
        x \in {<<"V2_2", FALSE>>, <<"V2_1", TRUE>>}}

\* ------------------------------------------------------------------------
\* Specifications
\* ------------------------------------------------------------------------
\* the state the constructor starts in
Start(inputs) ==
    /\ args \in inputs
    /\ phase = "filter"
    /\ error = ""
    /\ simmNetSensitivities_ = {}
    /\ collectRegsIsEmpty_ = EmptyMap
    /\ postRegsIsEmpty_ = EmptyMap
    /\ regSensitivities_ = EmptyMap
    /\ tradeIds_ = EmptyMap
    /\ simmResults_ = EmptyMap
    /\ winningRegulations_ = EmptyMap
    /\ finalSimmResults_ = EmptyMap
    /\ finalTradeIds_ = EmptyMap
    /\ calcQueue = <<>>
    /\ calcStep = "start"
    /\ winQueue = <<>>
    /\ applicable = {}

Init == Start(MarginInputs)
InitRegs == Start(RegulationInputs)
InitCalc == Start(CalcInputs)

Next ==
    \/ Filter
    \/ Split
    \/ Regulations
    \/ CalculateMargins
    \/ PopulateResults
    \/ CalcAddMargin
    \/ Convert
    \/ DetermineWinningRegulation
    \/ PopulateFinalResults
    \/ PopulateFinalResultsWith

Spec == Init /\ [][Next]_vars
SpecRegs == InitRegs /\ [][Next]_vars
SpecCalc == InitCalc /\ [][Next]_vars

\* ------------------------------------------------------------------------
\* Properties: the regulations
\* ------------------------------------------------------------------------
SideSet == Range(Sides)
NettingSets == Range(NettingSetOrder)

\* the regulations a (side, netting set) has results for
ComputedRegulations(side, ns) == RegulationsOf(simmResults_, side, ns)

\* those of them whose overall margin none of the others exceeds
Maximal(side, ns) ==
    {r \in ComputedRegulations(side, ns) :
        \A o \in ComputedRegulations(side, ns) :
            OverallMargin(simmResults_[<<side, ns, r>>]) >=
                OverallMargin(simmResults_[<<side, ns, o>>])}

\* C1: with determineWinningRegulations set, every (side, netting set) that
\* has a per-regulation result gets a winning regulation, the constructor
\* completing, and no regulation of the pair has a higher overall margin
\* than the winner, whatever the sign of the margins.
WinnerHasHighestMargin ==
    /\ error # "std::out_of_range"
    /\ (phase = "done" /\ args.determineWinningRegulations) =>
           \A side \in SideSet, ns \in NettingSets :
               ComputedRegulations(side, ns) # {} =>
                   /\ <<side, ns>> \in DOMAIN winningRegulations_
                   /\ winningRegulations_[<<side, ns>>] \in Maximal(side, ns)

\* C2: a winner the constructor records is one of the regulations that
\* attain the highest overall margin of its (side, netting set); when
\* several attain it the winner is what getWinningRegulation returns for
\* exactly those, and when one does it is that one.
TiedWinnerByPriority ==
    phase # "final" =>
        \A pr \in DOMAIN winningRegulations_ :
            LET tied == Maximal(pr[1], pr[2])
                winner == winningRegulations_[pr]
            IN  /\ winner \in tied
                /\ Cardinality(tied) > 1 =>
                       winner = getWinningRegulation(
                                    SelectSeq(RegulationOrder,
                                              LAMBDA r : r \in tied))
                /\ Cardinality(tied) = 1 => tied = {winner}

\* a (side, netting set) whose highest margin two regulations attain has its
\* winner
TiedWinnerRecorded ==
    /\ phase = "done"
    /\ \E pr \in DOMAIN winningRegulations_ :
           Cardinality(Maximal(pr[1], pr[2])) > 1

\* the records of the input that are not Schedule records
NonSchedule ==
    {cr \in args.simmNetSensitivities : cr.imModel # "Schedule"}

\* some record of the netting set names collect or post regulations
RegulationsSpecified(ns) ==
    \E x \in NonSchedule :
        /\ x.nettingSetDetails = ns
        /\ (x.collectRegulations # <<>> \/ x.postRegulations # <<>>)

\* the regulation list of a record on a side
RegulationList(cr, side) ==
    parseRegulationString(
        IF args.enforceIMRegulations
        THEN (IF side = "Call" THEN cr.collectRegulations
              ELSE cr.postRegulations)
        ELSE <<>>)

\* the sensitivity set of the regulation r holds the record
InsertedUnder(cr, side, r) ==
    /\ <<side, cr.nettingSetDetails, r>> \in DOMAIN regSensitivities_
    /\ FindRecord(regSensitivities_[<<side, cr.nettingSetDetails, r>>],
                  cr) # {}

\* C3: once the records are split, a record whose regulation list on a side
\* holds "Unspecified" is missing from the "Unspecified" set exactly when
\* enforceIMRegulations is set and some non-Schedule record of its netting
\* set names collect or post regulations; every other tag but "Excluded" is
\* inserted, and nothing is ever keyed "Excluded".
UnspecifiedAndExcluded ==
    /\ \A t \in DOMAIN regSensitivities_ \cup DOMAIN tradeIds_
                    \cup DOMAIN simmResults_ : t[3] # "Excluded"
    /\ phase = "regulations" =>
           \A cr \in NonSchedule, side \in SideSet :
               /\ "Unspecified" \in RegulationList(cr, side) =>
                      (InsertedUnder(cr, side, "Unspecified") <=>
                          ~(/\ args.enforceIMRegulations
                            /\ RegulationsSpecified(cr.nettingSetDetails)))
               /\ \A r \in RegulationList(cr, side)
                               \ {"Unspecified", "Excluded"} :
                      InsertedUnder(cr, side, r)

\* the records are split, one of them lost its "Unspecified" tag and one
\* its "Excluded" tag
UnspecifiedDiscarded ==
    /\ phase = "regulations"
    /\ args.enforceIMRegulations
    /\ \E cr \in NonSchedule, side \in SideSet :
           /\ "Unspecified" \in RegulationList(cr, side)
           /\ ~InsertedUnder(cr, side, "Unspecified")
    /\ \E cr \in NonSchedule, side \in SideSet :
           "Excluded" \in RegulationList(cr, side)

AllEmpty(ns, field) ==
    \A cr \in NonSchedule : cr.nettingSetDetails = ns => cr[field] = <<>>

\* C5: no Schedule record passes the first loop, the flags of a netting set
\* are those of its other records, the amount of every net record is a sum
\* over records of the input that are not Schedule records, no trade id of
\* a set is missing from them, and an input without any other record ends
\* without regulation sets, results or error.
ScheduleRecordsSkipped ==
    /\ simmNetSensitivities_ \subseteq NonSchedule
    /\ phase \notin {"filter", "failed"} =>
           /\ collectRegsIsEmpty_ =
                  [ns \in {cr.nettingSetDetails : cr \in NonSchedule} |->
                      AllEmpty(ns, "collectRegulations")]
           /\ postRegsIsEmpty_ =
                  [ns \in {cr.nettingSetDetails : cr \in NonSchedule} |->
                      AllEmpty(ns, "postRegulations")]
    /\ \A t \in DOMAIN regSensitivities_ :
           \A e \in regSensitivities_[t] :
               \E S \in SUBSET FindRecord(NonSchedule, e) :
                   /\ S # {}
                   /\ e.amountUsd = SumOver([cr \in S |-> cr.amountUsd], S)
    /\ \A t \in DOMAIN tradeIds_ :
           tradeIds_[t] \subseteq {cr.tradeId : cr \in NonSchedule}
    /\ NonSchedule = {} =>
           /\ phase \in {"filter", "done", "final"}
           /\ error = ""
           /\ regSensitivities_ = EmptyMap
           /\ simmResults_ = EmptyMap
           /\ finalSimmResults_ = EmptyMap

\* a Schedule record that names regulations was skipped: the flags of its
\* netting set are still set and the other records are under "Unspecified"
ScheduleRecordSkipped ==
    /\ phase = "done"
    /\ args.enforceIMRegulations
    /\ \E s \in args.simmNetSensitivities \ NonSchedule :
           /\ s.collectRegulations # <<>>
           /\ s.nettingSetDetails \in DOMAIN collectRegsIsEmpty_
           /\ collectRegsIsEmpty_[s.nettingSetDetails]
           /\ <<"Call", s.nettingSetDetails, "Unspecified">>
                  \in DOMAIN simmResults_

\* C6: from the end of the split on, "Unspecified" is the only regulation
\* of a (side, netting set) or is not one of its regulations, in the
\* sensitivity sets as in the results.
UnspecifiedStandsAlone ==
    \A side \in SideSet, ns \in NettingSets :
        /\ "Unspecified" \in RegulationsOf(regSensitivities_, side, ns) =>
               RegulationsOf(regSensitivities_, side, ns) = {"Unspecified"}
        /\ "Unspecified" \in RegulationsOf(simmResults_, side, ns) =>
               RegulationsOf(simmResults_, side, ns) = {"Unspecified"}

\* a record with the tag "Unspecified" on a side where its netting set has
\* the results of other regulations
UnspecifiedGaveWay ==
    /\ phase = "done"
    /\ \E cr \in NonSchedule, side \in SideSet :
           /\ "Unspecified" \in RegulationList(cr, side)
           /\ RegulationsOf(simmResults_, side, cr.nettingSetDetails)
                  \notin {{}, {"Unspecified"}}

\* ------------------------------------------------------------------------
\* Properties: the margins of a (side, netting set, regulation)
\* ------------------------------------------------------------------------
\* the risk types the calculator of a risk class and margin type reads
RiskTypesRead(rc, mt) ==
    IF mt = "Delta"
    THEN CASE rc = "InterestRate" -> {"IRCurve", "XCcyBasis", "Inflation"}
           [] rc = "FX" -> {"FX"}
           [] rc = "CreditQualifying" -> {"CreditQ"}
           [] rc = "CreditNonQualifying" -> {"CreditNonQ"}
           [] rc = "Equity" -> {"Equity"}
           [] rc = "Commodity" -> {"Commodity"}
    ELSE IF mt \in {"Vega", "Curvature"}
    THEN CASE rc = "InterestRate" -> {"IRVol", "InflationVol"}
           [] rc = "FX" -> {"FXVol"}
           [] rc = "CreditQualifying" -> {"CreditVol"}
           [] rc = "CreditNonQualifying" -> {"CreditVolNonQ"}
           [] rc = "Equity" -> {"EquityVol"}
           [] rc = "Commodity" -> {"CommodityVol"}
    ELSE IF rc = "CreditQualifying" THEN {"BaseCorr"} ELSE {}

\* the calculators have run for the triple
Calculated(t) ==
    /\ phase \in {"calculate", "winning", "done"}
    /\ t \in DOMAIN regSensitivities_
    /\ hasCrifRecords(regSensitivities_[t])
           \/ hasFixedAddOn(regSensitivities_[t])
    /\ \/ t \notin Range(calcQueue)
       \/ t = Head(calcQueue) /\ calcStep # "start"

\* the calculation of the triple is over, additional margin included
FullyCalculated(t) ==
    /\ t \in DOMAIN simmResults_
    /\ t \notin Range(calcQueue)

\* C7: for a calculated triple and every product class, risk class and
\* margin type among Delta, Vega, Curvature and BaseCorr, the calculator
\* applied exactly when the sensitivity set holds a record of the netting
\* set and product class with a risk type it reads, the results hold the
\* entry (productClass, riskClass, marginType, "All") exactly when it
\* applied, and hold no entry of any bucket when it did not.
CalculatorApplies ==
    \A t \in DOMAIN regSensitivities_ :
        Calculated(t) =>
            \A pc \in Range(ProductClasses), rc \in Range(RiskClasses),
               mt \in {"Delta", "Vega", "Curvature", "BaseCorr"} :
                LET hasRecords ==
                        \E cr \in regSensitivities_[t] :
                            /\ cr.nettingSetDetails = t[2]
                            /\ cr.productClass = pc
                            /\ cr.riskType \in RiskTypesRead(rc, mt)
                    applies == <<t[1], t[2], t[3], pc, rc, mt>> \in applicable
                    results == ResultsOf(simmResults_, t)
                IN  /\ applies <=> hasRecords
                    /\ has(results, pc, rc, mt, "All") <=> applies
                    /\ ~applies =>
                           \A k \in DOMAIN results :
                               ~(k[1] = pc /\ k[2] = rc /\ k[3] = mt)

\* a triple with a Vega and a BaseCorr margin, and so with margins that do
\* not apply
SomeCalculatorsApplied ==
    /\ phase = "done"
    /\ \E a \in applicable :
           /\ a[6] = "Vega"
           /\ \E b \in applicable :
                  /\ b[6] = "BaseCorr"
                  /\ <<b[1], b[2], b[3]>> = <<a[1], a[2], a[3]>>

\* the product classes with an entry of the margin type, and their sum
WithEntry(results, mt) ==
    {pc \in Range(ProductClasses) : has(results, pc, "All", mt, "All")}
SumOfProductClasses(results, mt) ==
    SumOver([pc \in WithEntry(results, mt) |->
                get(results, pc, "All", mt, "All")],
            WithEntry(results, mt))

MarginOr0(results, pc, mt) ==
    IF has(results, pc, "All", mt, "All")
    THEN get(results, pc, "All", mt, "All") ELSE 0

\* the total grew by what the totals of the product classes grew by
TotalGrewWithProductClasses(before, after) ==
    MarginOr0(after, "All", "All") - MarginOr0(before, "All", "All") =
        SumOver([pc \in Range(ProductClasses) |->
                    MarginOr0(after, pc, "All") - MarginOr0(before, pc, "All")],
                Range(ProductClasses))

\* the records of a risk type calcAddMargin reads for the triple
AddOnRecords(t, rt) ==
    {cr \in regSensitivities_[t] :
        /\ cr.nettingSetDetails = t[2]
        /\ cr.productClass = "Empty"
        /\ cr.riskType = rt}

\* C9: calcAddMargin fails when a multiplier of a product class with a
\* total is negative; otherwise every multiplier f of a product class with
\* a total adds (f - 1) times the total the aggregation left to the
\* AdditionalIM entry and the total of the product class and to the total
\* of the netting set, and a product class without a total gets nothing.
MultiplierScalesAggregatedIM ==
    [][(phase = "calculate" /\ calcQueue # <<>>
            /\ calcStep = "calcAddMargin") =>
        LET t == Head(calcQueue)
            before == ResultsOf(simmResults_, t)
            after == ResultsOf(simmResults_', t)
            effective ==
                {cr \in AddOnRecords(t, "ProductClassMultiplier") :
                    has(before, cr.qualifier, "All", "All", "All")}
            Of(pc) == {cr \in effective : cr.qualifier = pc}
            Scaled(pc) ==
                SumOver([cr \in Of(pc) |->
                            Mul(cr.amount - Unit,
                                get(before, pc, "All", "All", "All"))],
                        Of(pc))
        IN  IF \E cr \in effective : cr.amount < 0
            THEN phase' = "failed" /\ error' = "ProductClassMultiplier"
            ELSE phase' # "failed" =>
                    /\ \A pc \in {"RatesFX", "Credit", "Equity", "Commodity"} :
                           /\ MarginOr0(after, pc, "AdditionalIM") =
                                  Scaled(pc)
                           /\ MarginOr0(after, pc, "All") =
                                  MarginOr0(before, pc, "All") + Scaled(pc)
                           /\ has(after, pc, "All", "AdditionalIM", "All")
                                  <=> Of(pc) # {}
                    /\ TotalGrewWithProductClasses(before, after)]_vars

\* C10: calcAddMargin fails, and leaves no results, when an
\* AddOnNotionalFactor record has two or more Notional records of its
\* qualifier; otherwise the factors with one Notional record add
\* notional * factor / 100 to the AddOnNotionalFactor class and to the
\* total, and those with none add nothing and raise no error.
NotionalFactorAddOn ==
    [][(phase = "calculate" /\ calcQueue # <<>>
            /\ calcStep = "calcAddMargin") =>
        LET t == Head(calcQueue)
            before == ResultsOf(simmResults_, t)
            after == ResultsOf(simmResults_', t)
            factors == AddOnRecords(t, "AddOnNotionalFactor")
            Notionals(q) ==
                {cr \in AddOnRecords(t, "Notional") : cr.qualifier = q}
            matched ==
                {cr \in factors : Cardinality(Notionals(cr.qualifier)) = 1}
            expected ==
                SumOver([cr \in matched |->
                            Quot(Mul((CHOOSE n \in Notionals(cr.qualifier) :
                                         TRUE).amountUsd, cr.amount),
                                 100 * Unit)],
                        matched)
            duplicates ==
                \E cr \in factors : Cardinality(Notionals(cr.qualifier)) >= 2
        IN  /\ duplicates =>
                   /\ phase' = "failed"
                   /\ error' \in {"Notional", "ProductClassMultiplier"}
                   /\ simmResults_' = EmptyMap
                   /\ finalSimmResults_' = EmptyMap
            /\ phase' = "failed" =>
                   duplicates \/ error' = "ProductClassMultiplier"
            /\ phase' # "failed" =>
                   /\ matched # {} =>
                          /\ has(after, "AddOnNotionalFactor", "All", "All",
                                 "All")
                          /\ get(after, "AddOnNotionalFactor", "All", "All",
                                 "All") = expected
                          /\ MarginOr0(after, "AddOnNotionalFactor",
                                       "AdditionalIM") = expected
                   /\ matched = {} =>
                          \A k \in DOMAIN after :
                              k[1] # "AddOnNotionalFactor"
                   /\ TotalGrewWithProductClasses(before, after)]_vars

\* a triple whose notional factor found its notional
NotionalFactorAdded ==
    /\ phase = "done"
    /\ \E t \in DOMAIN simmResults_ :
           /\ has(simmResults_[t], "AddOnNotionalFactor", "All", "All", "All")
           /\ get(simmResults_[t], "AddOnNotionalFactor", "All", "All", "All")
                  # 0

\* ------------------------------------------------------------------------
\* the growth of the totals of the product classes other than pc
GrowthOfOthers(before, after, pc) ==
    SumOver([x \in Range(ProductClasses) |->
                MarginOr0(after, x, "All") - MarginOr0(before, x, "All")],
            Range(ProductClasses) \ {pc})

\* C11: the additional-margin step of a triple leaves the sum of the USD
\* amounts of its AddOnFixedAmount records in the AdditionalIM entry and
\* in the total of the AddOnFixedAmount class, and adds that sum, next to
\* what the other classes grew by, to the total of the netting set; without
\* such records the class gets no entry.  A triple whose sensitivity set
\* holds a fixed add-on has results and a total once it is calculated,
\* with or without ordinary sensitivities.
FixedAddOnAdded ==
    /\ [][(phase = "calculate" /\ calcQueue # <<>>
              /\ calcStep = "calcAddMargin" /\ phase' # "failed") =>
          LET t == Head(calcQueue)
              before == ResultsOf(simmResults_, t)
              after == ResultsOf(simmResults_', t)
              fixed == AddOnRecords(t, "AddOnFixedAmount")
              expected == SumOver([cr \in fixed |-> cr.amountUsd], fixed)
          IN  /\ fixed # {} =>
                     /\ has(after, "AddOnFixedAmount", "All", "All", "All")
                     /\ get(after, "AddOnFixedAmount", "All", "All", "All")
                            = expected
                     /\ has(after, "AddOnFixedAmount", "All", "AdditionalIM",
                            "All")
                     /\ get(after, "AddOnFixedAmount", "All", "AdditionalIM",
                            "All") = expected
              /\ fixed = {} =>
                     \A k \in DOMAIN after : k[1] # "AddOnFixedAmount"
              /\ MarginOr0(after, "All", "All")
                     - MarginOr0(before, "All", "All")
                 = expected
                   + GrowthOfOthers(before, after, "AddOnFixedAmount")]_vars
    /\ [](\A t \in DOMAIN regSensitivities_ :
              (hasFixedAddOn(regSensitivities_[t]) /\ t \notin Range(calcQueue)
                  /\ phase \in {"calculate", "winning", "done"}) =>
                  /\ t \in DOMAIN simmResults_
                  /\ has(simmResults_[t], "All", "All", "All", "All"))

\* a triple of two fixed add-ons and no sensitivity, with their sum as its
\* total
FixedAddOnsAlone ==
    /\ phase = "done"
    /\ args.resultCcy = "USD"
    /\ \E t \in DOMAIN simmResults_ :
           /\ ~hasCrifRecords(regSensitivities_[t])
           /\ Cardinality(AddOnRecords(t, "AddOnFixedAmount")) = 2
           /\ get(simmResults_[t], "All", "All", "All", "All") = ToReal(-5)

\* the total of margin() over a set of records of one risk type, 0 for none
MarginTotal(nsd, pc, rt, records) ==
    IF records = {} THEN 0 ELSE margin(nsd, pc, rt, records).margins["All"]

\* the risk classes whose Delta and Vega margins margin() computes
MarginRiskClasses ==
    {"FX", "CreditQualifying", "CreditNonQualifying", "Equity", "Commodity"}

\* C12: for a calculated triple, every Delta and Vega total that margin()
\* computed equals the total of the records outside the Residual bucket
\* plus the total of the records of the Residual bucket taken alone, which
\* is K_residual and is the "Residual" entry when it is not zero: the
\* residual bucket enters no cross-bucket term.
ResidualAddedBack ==
    \A t \in DOMAIN regSensitivities_ :
        Calculated(t) =>
            \A pc \in Range(ProductClasses), rc \in MarginRiskClasses,
               mt \in {"Delta", "Vega"} :
                \A rt \in RiskTypesRead(rc, mt) :
                    LET range == OfRiskType(regSensitivities_[t], t[2], pc, rt)
                        residual == InBucket(range, "Residual")
                        results == ResultsOf(simmResults_, t)
                    IN  /\ has(results, pc, rc, mt, "All") =>
                               get(results, pc, rc, mt, "All")
                                   = MarginTotal(t[2], pc, rt, range \ residual)
                                     + MarginTotal(t[2], pc, rt, residual)
                        /\ has(results, pc, rc, mt, "Residual") =>
                               get(results, pc, rc, mt, "Residual")
                                   = MarginTotal(t[2], pc, rt, residual)

\* an Equity delta margin of two buckets and the Residual bucket
ResidualBesideTwoBuckets ==
    /\ phase = "done"
    /\ \E t \in DOMAIN simmResults_ :
           /\ {cr.bucket : cr \in {x \in regSensitivities_[t] :
                                       x.riskType = "Equity"}}
                  = {"1", "2", "Residual"}
           /\ has(simmResults_[t], "Equity", "Equity", "Delta", "Residual")
           /\ get(simmResults_[t], "Equity", "Equity", "Delta", "Residual") > 0
           /\ get(simmResults_[t], "Equity", "Equity", "Delta", "All")
                  > get(simmResults_[t], "Equity", "Equity", "Delta", "1")
                    + get(simmResults_[t], "Equity", "Equity", "Delta",
                          "Residual")

\* the records with the amount of every record of the risk type and
\* qualifier replaced by amount
Reamount(records, rt, q, amount) ==
    {IF cr.riskType = rt /\ cr.qualifier = q
     THEN [cr EXCEPT !.amountUsd = amount] ELSE cr : cr \in records}

\* the entries of the results for a product class, risk class and margin
\* type, by bucket
EntriesOf(results, pc, rc, mt) ==
    [b \in {k[4] : k \in {x \in DOMAIN results :
                              x[1] = pc /\ x[2] = rc /\ x[3] = mt}} |->
        get(results, pc, rc, mt, b)]

\* the amounts given to the records in the calculation currency
OtherAmounts == {0, ToReal(1), ToReal(-9), ToReal(100)}

\* C13: for a calculated triple with an FX delta margin, the entries of the
\* FX delta result (per qualifier and "All") are those margin() computes
\* from the same records with any other amount on the Risk_FX records in
\* the calculation currency, and none of them is an entry of the
\* calculation currency.
CalculationCcyLeftOut ==
    \A t \in DOMAIN regSensitivities_ :
        Calculated(t) =>
            \A pc \in Range(ProductClasses) :
                LET results == ResultsOf(simmResults_, t)
                IN  has(results, pc, "FX", "Delta", "All") =>
                        /\ ~has(results, pc, "FX", "Delta",
                                args.calculationCcy)
                        /\ \A a \in OtherAmounts :
                               EntriesOf(results, pc, "FX", "Delta")
                                   = margin(t[2], pc, "FX",
                                            Reamount(regSensitivities_[t],
                                                     "FX",
                                                     args.calculationCcy,
                                                     a)).margins

\* an FX delta margin of records in the calculation currency and in
\* another currency
CalculationCcyBesideOthers ==
    /\ phase = "done"
    /\ \E t \in DOMAIN simmResults_ :
           /\ \E cr \in regSensitivities_[t] :
                  /\ cr.riskType = "FX"
                  /\ cr.qualifier = args.calculationCcy
                  /\ cr.amountUsd # 0
           /\ has(simmResults_[t], "RatesFX", "FX", "Delta", "EUR")
           /\ has(simmResults_[t], "RatesFX", "FX", "Delta", "GBP")
           /\ get(simmResults_[t], "RatesFX", "FX", "Delta", "All") > 0

\* max(sum WS + lambda(theta) sqrt(sum K_b^2 + cross terms), 0) over the
\* sequence names of qualifiers or buckets, zero without sensitivities
SkewedAggregate(names, sumWeighted, sumAbsWeighted, k, corr) ==
    IF close_enough(SumOver(sumAbsWeighted, Range(names)), 0) THEN 0
    ELSE Max(WithLambda(SumOver(sumWeighted, Range(names)),
                        SumOver(sumAbsWeighted, Range(names)),
                        Sqrt(Max(AcrossNames(names, k, sumWeighted, corr,
                                             corr), 0))),
             0)

\* that value for the interest rate curvature of a product class, before
\* any scaling, from the weighted sensitivities ws of the IRVol records ir
\* and the InflationVol records inf and from the margins of the qualifiers
\* in the results
IrCurvatureUnscaledOf(results, pc, qualifiers, ir, inf, ws) ==
    SkewedAggregate(
        SeqOf(qualifiers),
        [q \in qualifiers |->
            SumOver(ws, WithQualifier(ir, q))
            + SumOver(ws, WithQualifier(inf, q))],
        [q \in qualifiers |->
            SumOver([cr \in ir |-> Abs(ws[cr])], WithQualifier(ir, q))
            + Abs(SumOver(ws, WithQualifier(inf, q)))],
        [q \in qualifiers |->
            IF has(results, pc, "InterestRate", "Curvature", q)
            THEN get(results, pc, "InterestRate", "Curvature", q) ELSE 0],
        irCorrelations("IRVol", SeqOf(qualifiers)))
IrCurvatureUnscaled(results, nsd, pc, side, records) ==
    IrCurvatureUnscaledOf(
        results, pc,
        QualifiersOf(records, nsd, pc, {"IRVol", "InflationVol"}),
        OfRiskType(records, nsd, pc, "IRVol"),
        IF irCurvatureWithInflation
        THEN OfRiskType(records, nsd, pc, "InflationVol") ELSE {},
        irCurvatureWeightedSensis(
            OfRiskType(records, nsd, pc, "IRVol")
                \cup OfRiskType(records, nsd, pc, "InflationVol"),
            Multiplier(side)))

\* and for the curvature of the risk type rt of another risk class: the
\* value over the buckets other than Residual plus the value of the
\* Residual bucket alone
CurvatureUnscaledOf(rt, range, bs, sumWeighted, sumAbsWeighted, k) ==
    SkewedAggregate(bs, sumWeighted, sumAbsWeighted, k,
                    BucketCorrelations(rt, range, bs))
    + (IF /\ "Residual" \in DOMAIN k
          /\ ~close_enough(sumAbsWeighted["Residual"], 0)
       THEN Max(WithLambda(sumWeighted["Residual"],
                           sumAbsWeighted["Residual"], k["Residual"]), 0)
       ELSE 0)
CurvatureUnscaledOfRange(rt, range, wsInner, wsOuter, rfLabels) ==
    CurvatureUnscaledOf(
        rt, range, SeqOf(BucketNames(range) \ {"Residual"}),
        [b \in BucketNames(range) |-> SumOver(wsOuter, InBucket(range, b))],
        [b \in BucketNames(range) |->
            curvatureSumAbs(wsOuter, InBucket(range, b), rfLabels)],
        [b \in BucketNames(range) |->
            curvatureOfBucket(rt, wsInner, wsOuter,
                              SeqOf(InBucket(range, b)))])
CurvatureUnscaled(nsd, pc, rt, side, records) ==
    CurvatureUnscaledOfRange(
        rt, OfRiskType(records, nsd, pc, rt),
        curvatureInner(rt, OfRiskType(records, nsd, pc, rt),
                       Multiplier(side)),
        curvatureOuter(rt, curvatureInner(rt,
                                          OfRiskType(records, nsd, pc, rt),
                                          Multiplier(side))),
        rt \in {"CreditVol", "CreditVolNonQ"})

\* C14 as the specification states it: every curvature total, of the
\* interest rate risk class and of the other risk classes alike, is the
\* value max(sum WS + lambda(theta) sqrt(sum K_b^2 + cross terms), 0)
\* multiplied by the curvature scaling factor.
EveryCurvatureTotalScaled ==
    \A t \in DOMAIN regSensitivities_ :
        Calculated(t) =>
            \A pc \in Range(ProductClasses) :
                LET results == ResultsOf(simmResults_, t)
                IN  /\ has(results, pc, "InterestRate", "Curvature", "All")
                       => get(results, pc, "InterestRate", "Curvature", "All")
                              = Mul(curvatureMarginScaling,
                                    IrCurvatureUnscaled(
                                        results, t[2], pc, t[1],
                                        regSensitivities_[t]))
                    /\ \A rc \in MarginRiskClasses :
                           has(results, pc, rc, "Curvature", "All") =>
                               \A rt \in RiskTypesRead(rc, "Curvature") :
                                   get(results, pc, rc, "Curvature", "All")
                                       = Mul(curvatureMarginScaling,
                                             CurvatureUnscaled(
                                                 t[2], pc, rt, t[1],
                                                 regSensitivities_[t]))

\* C14, amended: only the interest rate curvature total is multiplied by
\* the curvature scaling factor; the curvature total of every other risk
\* class is the value max(sum WS + lambda(theta) sqrt(sum K_b^2 + cross
\* terms), 0) over the buckets other than Residual plus the value of the
\* Residual bucket, not scaled.
OnlyIrCurvatureScaled ==
    \A t \in DOMAIN regSensitivities_ :
        Calculated(t) =>
            \A pc \in Range(ProductClasses) :
                LET results == ResultsOf(simmResults_, t)
                IN  /\ has(results, pc, "InterestRate", "Curvature", "All")
                       => get(results, pc, "InterestRate", "Curvature", "All")
                              = Mul(curvatureMarginScaling,
                                    IrCurvatureUnscaled(
                                        results, t[2], pc, t[1],
                                        regSensitivities_[t]))
                    /\ \A rc \in MarginRiskClasses :
                           has(results, pc, rc, "Curvature", "All") =>
                               \A rt \in RiskTypesRead(rc, "Curvature") :
                                   get(results, pc, rc, "Curvature", "All")
                                       = CurvatureUnscaled(
                                             t[2], pc, rt, t[1],
                                             regSensitivities_[t])

\* an interest rate and an Equity curvature margin of one triple, both
\* above zero
IrAndEquityCurvature ==
    /\ phase = "done"
    /\ \E t \in DOMAIN simmResults_ :
           /\ has(simmResults_[t], "RatesFX", "InterestRate", "Curvature",
                  "All")
           /\ get(simmResults_[t], "RatesFX", "InterestRate", "Curvature",
                  "All") > 0
           /\ has(simmResults_[t], "Equity", "Equity", "Curvature", "All")
           /\ get(simmResults_[t], "Equity", "Equity", "Curvature", "All") > 0
           /\ has(simmResults_[t], "Equity", "Equity", "Curvature",
                  "Residual")

\* the records with every amountUsd negated, and the other side
Negated(records) == {[cr EXCEPT !.amountUsd = -@] : cr \in records}
OtherSide(side) == IF side = "Call" THEN "Post" ELSE "Call"

\* C15: for a calculated triple, the curvature entries of every product
\* class and risk class (per bucket or qualifier, and "All") are those the
\* curvature calculator of the risk class gives for the other side on the
\* same records with every amountUsd negated; so the margin of side Post is
\* the margin of side Call on the negated set, and conversely.
CurvatureSideIsSign ==
    \A t \in DOMAIN regSensitivities_ :
        Calculated(t) =>
            \A pc \in Range(ProductClasses) :
                LET results == ResultsOf(simmResults_, t)
                IN  /\ has(results, pc, "InterestRate", "Curvature", "All")
                       => EntriesOf(results, pc, "InterestRate", "Curvature")
                              = irCurvatureMargin(
                                    t[2], pc, OtherSide(t[1]),
                                    Negated(regSensitivities_[t])).margins
                    /\ \A rc \in MarginRiskClasses :
                           has(results, pc, rc, "Curvature", "All") =>
                               \A rt \in RiskTypesRead(rc, "Curvature") :
                                   EntriesOf(results, pc, rc, "Curvature")
                                       = curvatureMargin(
                                             t[2], pc, rt, OtherSide(t[1]),
                                             Negated(regSensitivities_[t]),
                                             rt \in {"CreditVol",
                                                     "CreditVolNonQ"}).margins

\* the two sides of a netting set with different interest rate and
\* different Equity curvature margins
CurvatureDiffersBySide ==
    /\ phase = "done"
    /\ \E t \in DOMAIN simmResults_, u \in DOMAIN simmResults_ :
           /\ t[1] = "Call" /\ u[1] = "Post"
           /\ t[2] = u[2] /\ t[3] = u[3]
           /\ has(simmResults_[t], "RatesFX", "InterestRate", "Curvature",
                  "All")
           /\ has(simmResults_[u], "RatesFX", "InterestRate", "Curvature",
                  "All")
           /\ get(simmResults_[t], "RatesFX", "InterestRate", "Curvature",
                  "All")
                  # get(simmResults_[u], "RatesFX", "InterestRate",
                        "Curvature", "All")
           /\ has(simmResults_[t], "Equity", "Equity", "Curvature", "All")
           /\ has(simmResults_[u], "Equity", "Equity", "Curvature", "All")
           /\ get(simmResults_[t], "Equity", "Equity", "Curvature", "All")
                  # get(simmResults_[u], "Equity", "Equity", "Curvature",
                        "All")

\* the records with the amount of every record of the risk type and bucket
\* replaced by amount, and with those records moved to another bucket
ReamountBucket(records, rt, b, amount) ==
    {IF cr.riskType = rt /\ cr.bucket = b
     THEN [cr EXCEPT !.amountUsd = amount] ELSE cr : cr \in records}
Rebucket(records, rt, b, other) ==
    {IF cr.riskType = rt /\ cr.bucket = b
     THEN [cr EXCEPT !.bucket = other] ELSE cr : cr \in records}

\* C16: for a calculated triple with an Equity curvature margin, from SIMM
\* 2.2 on the entries of the margin (per bucket and "All") are those the
\* calculator gives with any other amount on the EquityVol records of
\* bucket "12", and the entry of bucket "12" is zero; before SIMM 2.2 the
\* total is the one the calculator gives with those records in another
\* bucket, "11", and the entry of bucket "12" is the entry bucket "11"
\* would have.
EquityBucket12Zeroed ==
    \A t \in DOMAIN regSensitivities_ :
        Calculated(t) =>
            \A pc \in Range(ProductClasses) :
                LET results == ResultsOf(simmResults_, t)
                    moved == curvatureMargin(
                                 t[2], pc, "EquityVol", t[1],
                                 Rebucket(regSensitivities_[t], "EquityVol",
                                          "12", "11"),
                                 FALSE).margins
                IN  has(results, pc, "Equity", "Curvature", "All") =>
                        IF VersionAtLeast(args.version, "V2_2")
                        THEN /\ has(results, pc, "Equity", "Curvature", "12")
                                => get(results, pc, "Equity", "Curvature",
                                       "12") = 0
                             /\ \A a \in OtherAmounts :
                                    EntriesOf(results, pc, "Equity",
                                              "Curvature")
                                        = curvatureMargin(
                                              t[2], pc, "EquityVol", t[1],
                                              ReamountBucket(
                                                  regSensitivities_[t],
                                                  "EquityVol", "12", a),
                                              FALSE).margins
                        ELSE /\ get(results, pc, "Equity", "Curvature", "All")
                                    = moved["All"]
                             /\ has(results, pc, "Equity", "Curvature", "12")
                                => get(results, pc, "Equity", "Curvature",
                                       "12") = moved["11"]

\* under SIMM 2.2, an Equity curvature margin of records of bucket "12"
\* with amounts other than zero and of a record of another bucket
Bucket12BesideBucket1 ==
    /\ phase = "done"
    /\ args.version = "V2_2"
    /\ \E t \in DOMAIN simmResults_ :
           /\ \E cr \in regSensitivities_[t] :
                  /\ cr.riskType = "EquityVol" /\ cr.bucket = "12"
                  /\ cr.amountUsd # 0
           /\ has(simmResults_[t], "Equity", "Equity", "Curvature", "12")
           /\ has(simmResults_[t], "Equity", "Equity", "Curvature", "1")
           /\ get(simmResults_[t], "Equity", "Equity", "Curvature", "All") > 0

\* C17: the step of convert() leaves every result as it is and does not
\* fail when the result currency is USD, whatever the market; otherwise it
\* aborts the calculation when the market is not set, has no quote or gives
\* a spot rate that is not above zero, and else replaces every value of
\* every key of every triple by its quotient by the spot rate; and no later
\* step changes a value, so each is divided once.
ConvertDividesOnce ==
    /\ [][(phase = "calculate" /\ calcQueue = <<>>) =>
            IF args.resultCcy = "USD"
            THEN phase' # "failed" /\ simmResults_' = simmResults_
            ELSE IF \/ ~args.market.set
                    \/ ~args.market.hasQuote
                    \/ args.market.fxSpot <= 0
            THEN phase' = "failed" /\ simmResults_' = EmptyMap
            ELSE /\ phase' # "failed"
                 /\ DOMAIN simmResults_' = DOMAIN simmResults_
                 /\ \A t \in DOMAIN simmResults_ :
                        /\ DOMAIN simmResults_'[t] = DOMAIN simmResults_[t]
                        /\ \A k \in DOMAIN simmResults_[t] :
                               simmResults_'[t][k]
                                   = Quot(simmResults_[t][k],
                                          args.market.fxSpot)]_vars
    /\ [][(phase \in {"winning", "done"} /\ phase' # "failed") =>
            simmResults_' = simmResults_]_vars

\* results in EUR at a rate of 2, with a total and a leaf above zero
ConvertedResults ==
    /\ phase = "done"
    /\ args.resultCcy = "EUR"
    /\ args.market.fxSpot = 2 * Unit
    /\ \E t \in DOMAIN simmResults_ :
           /\ has(simmResults_[t], "All", "All", "All", "All")
           /\ get(simmResults_[t], "All", "All", "All", "All") > 0
           /\ \E k \in DOMAIN simmResults_[t] :
                  /\ k[1] # "All" /\ k[2] # "All" /\ k[3] # "All"
                  /\ simmResults_[t][k] > 0

\* C18 as the specification states it: the conversion is the last stage,
\* so when it runs on results to convert, with winning regulations to
\* determine, the winning regulations have been determined.
ConversionIsLastStage ==
    [][(/\ phase = "calculate" /\ calcQueue = <<>>
        /\ args.determineWinningRegulations
        /\ args.resultCcy # "USD"
        /\ DOMAIN simmResults_ # {}
        /\ phase' # "failed") =>
            /\ DOMAIN winningRegulations_ # {}
            /\ phase' = "done"]_vars

\* C18, amended: the conversion runs once every triple is calculated and
\* before the winning regulations are determined: when it runs there is no
\* winning regulation and no final result yet, and it hands over to the
\* selection when winning regulations are to be determined; the selection
\* reads the converted margins, and the final results of a (side, netting
\* set) are the converted results of its winning regulation.
ConversionBeforeSelection ==
    /\ [][(phase = "calculate" /\ calcQueue = <<>>) =>
            /\ winningRegulations_ = EmptyMap
            /\ finalSimmResults_ = EmptyMap
            /\ phase' # "failed" =>
                   phase' = IF args.determineWinningRegulations
                            THEN "winning" ELSE "done"]_vars
    /\ [][(phase = "winning" /\ winQueue # <<>> /\ phase' # "failed") =>
            LET pr == Head(winQueue)
                reg == winningRegulations_'[pr]
            IN  /\ <<pr[1], pr[2], reg>> \in DOMAIN simmResults_
                /\ \A t \in DOMAIN simmResults_ :
                       (t[1] = pr[1] /\ t[2] = pr[2]) =>
                           OverallMargin(simmResults_[t])
                               <= OverallMargin(
                                      simmResults_[<<pr[1], pr[2], reg>>])]_vars
    /\ [](phase = "done" =>
             \A pr \in DOMAIN finalSimmResults_ :
                 finalSimmResults_[pr].results
                     = ResultsOf(simmResults_,
                                 <<pr[1], pr[2],
                                   finalSimmResults_[pr].regulation>>))

\* converted results whose winning regulations are still to be determined:
\* a total above zero and below the fixed add-on in USD it holds
ConvertedBeforeSelection ==
    /\ phase = "winning"
    /\ winQueue # <<>>
    /\ args.resultCcy = "EUR"
    /\ winningRegulations_ = EmptyMap
    /\ \E t \in DOMAIN simmResults_ :
           /\ OverallMargin(simmResults_[t]) > 0
           /\ \E cr \in regSensitivities_[t] :
                  cr.riskType = "AddOnFixedAmount"
                  /\ OverallMargin(simmResults_[t]) < cr.amountUsd

\* the keys of leaf margins: no product class, risk class or margin type
\* "All"
LeafKeys(results) ==
    {k \in DOMAIN results : "All" \notin {k[1], k[2], k[3]}}

\* the triples the calculation loop calculates
ToCalculate ==
    {t \in DOMAIN regSensitivities_ :
        hasCrifRecords(regSensitivities_[t])
            \/ hasFixedAddOn(regSensitivities_[t])}

\* C19: when populateResults of a triple starts, the results of the triple
\* hold the leaf margin of every calculator that applied, for every
\* product class of its records, and nothing else; when the additional
\* margin of a triple starts, the aggregation has written the total and the
\* total of every product class with a leaf margin; the steps of a triple
\* follow each other in that order; and the conversion and the selection
\* of the winning regulations start only when every triple to calculate
\* has been through aggregation and additional margin.
StagesInOrder ==
    /\ [](phase = "calculate" /\ calcQueue # <<>>
              /\ calcStep = "populateResults" =>
             LET t == Head(calcQueue)
                 results == ResultsOf(simmResults_, t)
             IN  /\ DOMAIN results = LeafKeys(results)
                 /\ \A a \in applicable :
                        <<a[1], a[2], a[3]>> = t =>
                            has(results, a[4], a[5], a[6], "All")
                 /\ \A pc \in Range(ProductClasses), rc \in Range(RiskClasses),
                       mt \in {"Delta", "Vega", "Curvature"} :
                        (\E cr \in regSensitivities_[t] :
                            /\ cr.nettingSetDetails = t[2]
                            /\ cr.productClass = pc
                            /\ cr.riskType \in RiskTypesRead(rc, mt))
                        => has(results, pc, rc, mt, "All"))
    /\ [](phase = "calculate" /\ calcQueue # <<>>
              /\ calcStep = "calcAddMargin" =>
             LET t == Head(calcQueue)
                 results == ResultsOf(simmResults_, t)
             IN  /\ has(results, "All", "All", "All", "All")
                 /\ \A k \in LeafKeys(results) :
                        has(results, k[1], "All", "All", "All"))
    /\ [][/\ calcStep' = "populateResults" =>
               calcStep = "start" /\ calcQueue' = calcQueue
          /\ calcStep' = "calcAddMargin" =>
               calcStep = "populateResults" /\ calcQueue' = calcQueue
          /\ (calcStep' = "start" /\ calcStep # "start"
                 /\ phase' # "failed") =>
               calcStep = "calcAddMargin" /\ calcQueue' = Tail(calcQueue)]_vars
    /\ [](phase \in {"winning", "done"} =>
             /\ calcQueue = <<>> /\ calcStep = "start"
             /\ \A t \in ToCalculate :
                    /\ t \in DOMAIN simmResults_
                    /\ has(simmResults_[t], "All", "All", "All", "All"))
    /\ [][(phase = "calculate" /\ phase' \in {"winning", "done"}) =>
            /\ calcQueue = <<>> /\ calcStep = "start"
            /\ \A t \in ToCalculate :
                   /\ t \in DOMAIN simmResults_
                   /\ has(simmResults_[t], "All", "All", "All", "All")
            /\ winningRegulations_ = EmptyMap]_vars

\* the additional margin of a triple with leaf margins of two product
\* classes about to start, another triple being calculated already
SecondTripleAggregated ==
    /\ phase = "calculate"
    /\ calcQueue # <<>>
    /\ calcStep = "calcAddMargin"
    /\ Cardinality({k[1] : k \in LeafKeys(simmResults_[Head(calcQueue)])}) >= 2
    /\ \E cr \in regSensitivities_[Head(calcQueue)] : isSimmParameter(cr)
    /\ \E u \in ToCalculate :
           /\ u \notin Range(calcQueue)
           /\ u \in DOMAIN simmResults_
           /\ has(simmResults_[u], "All", "All", "All", "All")

\* the results of a triple calculated from its own sensitivities alone,
\* starting from no results: leaf margins, aggregation, additional margin
Standalone(t) ==
    calcAddMargin(
        populateResults(
            ProductClassLoop([results |-> EmptyMap, flags |-> {},
                              error |-> ""],
                             ProductClassesOf(regSensitivities_[t]),
                             t[2], t[1], regSensitivities_[t]).results),
        t[2], regSensitivities_[t]).results

FatalCurrency ==
    ~checkCurrency(args.calculationCcy) \/ ~checkCurrency(args.resultCcy)
FatalConversion ==
    /\ args.resultCcy # "USD"
    /\ \/ ~args.market.set
       \/ ~args.market.hasQuote
       \/ args.market.fxSpot <= 0
FatalMultiplier(results, records) ==
    \E cr \in records :
        /\ cr.riskType = "ProductClassMultiplier"
        /\ \/ parseSimmProductClass(cr.qualifier) = "Invalid"
           \/ /\ cr.amount < 0
              /\ has(results, parseSimmProductClass(cr.qualifier),
                     "All", "All", "All")
FatalNotional(nsd, records) ==
    \E cr \in records :
        /\ cr.riskType = "AddOnNotionalFactor"
        /\ Cardinality(OfQualifier(records, nsd, "Empty", "Notional",
                                   cr.qualifier)) >= 2
FatalDuplicate(nsd, records) ==
    \E pc \in Range(ProductClasses), rt \in {"XCcyBasis", "Inflation"} :
        \E cr \in OfRiskType(records, nsd, pc, rt) :
            Cardinality(OfQualifier(records, nsd, pc, rt, cr.qualifier)) >= 2

\* C21: a failed calculation shows no sensitivity set, no results, no
\* winning regulation and no final result, and stays failed; a calculation
\* that ends without failure met none of the fatal conditions, and then
\* every triple to calculate has its results with the total and with the
\* total of every product class that has a leaf margin, and, when winning
\* regulations are determined, every (side, netting set) with results has
\* its winning regulation and its final results.
FailureLeavesNothing ==
    /\ [](phase = "failed" =>
             /\ error # ""
             /\ regSensitivities_ = EmptyMap
             /\ simmResults_ = EmptyMap
             /\ winningRegulations_ = EmptyMap
             /\ finalSimmResults_ = EmptyMap
             /\ finalTradeIds_ = EmptyMap)
    /\ [][phase = "failed" => phase' = "failed"]_vars
    /\ [](phase = "done" =>
             /\ ~FatalCurrency
             /\ simmNetSensitivities_ # {} => ~FatalConversion
             /\ \A t \in ToCalculate :
                    /\ t \in DOMAIN simmResults_
                    /\ has(simmResults_[t], "All", "All", "All", "All")
                    /\ \A k \in LeafKeys(simmResults_[t]) :
                           has(simmResults_[t], k[1], "All", "All", "All")
                    /\ ~FatalMultiplier(simmResults_[t], regSensitivities_[t])
                    /\ ~FatalNotional(t[2], regSensitivities_[t])
                    /\ ~FatalDuplicate(t[2], regSensitivities_[t])
             /\ (args.determineWinningRegulations
                    /\ simmNetSensitivities_ # {}) =>
                    \A t \in DOMAIN simmResults_ :
                        /\ <<t[1], t[2]>> \in DOMAIN winningRegulations_
                        /\ <<t[1], t[2]>> \in DOMAIN finalSimmResults_)

\* a calculation that failed on two XCcyBasis records of one currency,
\* after the records were split by regulation
FailedOnDuplicate ==
    /\ phase = "failed"
    /\ error = "irDeltaMargin"
    /\ Cardinality({cr \in args.simmNetSensitivities :
                       cr.riskType = "XCcyBasis"}) = 2

\* the (side, netting set) pairs with results
PairsWithResults == {<<t[1], t[2]>> : t \in DOMAIN simmResults_}

\* populateFinalResults has run: in the constructor or by a later call
FinalResultsPopulated ==
    \/ phase = "final"
    \/ /\ phase = "done"
       /\ args.determineWinningRegulations
       /\ simmNetSensitivities_ # {}

WeightedSensitivityAlone(cr) ==
    IF cr.riskType = "XCcyBasis"
    THEN Mul(weight(cr.riskType, cr.qualifier, cr.label1), cr.amountUsd)
    ELSE IF cr.riskType \in {"IRCurve", "Inflation"}
    THEN Mul(Mul(weight(cr.riskType, cr.qualifier, cr.label1), cr.amountUsd),
             ConcentrationRisk(cr.amountUsd,
                               concentrationThreshold("IRCurve",
                                                      cr.qualifier)))
    ELSE IF cr.riskType \in {"IRVol", "InflationVol"}
    THEN Mul(Mul(weight(cr.riskType, cr.qualifier, cr.label1), cr.amountUsd),
             ConcentrationRisk(cr.amountUsd,
                               concentrationThreshold("IRVol", cr.qualifier)))
    ELSE Mul(Mul(weight(cr.riskType, cr.qualifier, cr.label1),
                 marginSensitivity(cr.riskType, cr)),
             ConcentrationRisk(marginSensitivity(cr.riskType, cr),
                               concentrationThreshold(cr.riskType,
                                                      cr.qualifier)))

\* the volatility risk types, read by the Vega and the Curvature calculator
VolatilityRiskTypes ==
    {"IRVol", "InflationVol", "FXVol", "CreditVol", "CreditVolNonQ",
     "EquityVol", "CommodityVol"}

\* the risk class and the margin type of the Delta, Vega or BaseCorr margin
\* of a risk type, and the name its margin is reported under
LevelOf(rt) ==
    CHOOSE x \in Range(RiskClasses) \X {"Delta", "Vega", "BaseCorr"} :
        rt \in RiskTypesRead(x[1], x[2])
NameOf(cr) ==
    IF cr.riskType \in {"IRCurve", "XCcyBasis", "Inflation", "IRVol",
                        "InflationVol", "FX", "FXVol"}
    THEN cr.qualifier ELSE cr.bucket

\* the triples calculated from one record alone, a sensitivity of a risk
\* type the calculators read with an amount other than zero, with results
\* in USD
AloneIn(t, cr) ==
    /\ args.resultCcy = "USD"
    /\ phase = "done"
    /\ t \in DOMAIN simmResults_
    /\ regSensitivities_[t] = {cr}
    /\ \E x \in Range(RiskClasses) \X {"Delta", "Vega", "BaseCorr"} :
           cr.riskType \in RiskTypesRead(x[1], x[2])
    /\ cr.amountUsd # 0
    /\ ~skipped(cr.riskType, cr.qualifier)

\* C23 as the specification states it: with one record alone, the margin is
\* the absolute value of its weighted sensitivity at every level: bucket,
\* risk class and margin type, risk class, product class, netting set.
OneRecordSameAtEveryLevel ==
    \A t \in DOMAIN regSensitivities_ :
        \A cr \in regSensitivities_[t] :
            AloneIn(t, cr) =>
                LET r == simmResults_[t]
                    pc == cr.productClass
                    rc == LevelOf(cr.riskType)[1]
                    mt == LevelOf(cr.riskType)[2]
                    ws == Abs(WeightedSensitivityAlone(cr))
                IN  /\ has(r, pc, rc, mt, NameOf(cr))
                    /\ get(r, pc, rc, mt, NameOf(cr)) = ws
                    /\ get(r, pc, rc, mt, "All") = ws
                    /\ get(r, pc, rc, "All", "All") = ws
                    /\ get(r, pc, "All", "All", "All") = ws
                    /\ get(r, "All", "All", "All", "All") = ws

\* C23, amended: that holds for a record of a risk type that is not a
\* volatility; a volatility record alone has the absolute value of its
\* weighted sensitivity as bucket margin and as Vega margin, and its risk
\* class total is that value plus the Curvature margin computed from the
\* same record; the product class total is the square root of the square
\* of the risk class total and the netting set total is the product class
\* total.
OneRecordSameUpToCurvature ==
    \A t \in DOMAIN regSensitivities_ :
        \A cr \in regSensitivities_[t] :
            AloneIn(t, cr) =>
                LET r == simmResults_[t]
                    pc == cr.productClass
                    rc == LevelOf(cr.riskType)[1]
                    mt == LevelOf(cr.riskType)[2]
                    ws == Abs(WeightedSensitivityAlone(cr))
                    total == IF cr.riskType \in VolatilityRiskTypes
                             THEN ws + get(r, pc, rc, "Curvature", "All")
                             ELSE ws
                IN  /\ has(r, pc, rc, mt, NameOf(cr))
                    /\ get(r, pc, rc, mt, NameOf(cr)) = ws
                    /\ get(r, pc, rc, mt, "All") = ws
                    /\ cr.riskType \in VolatilityRiskTypes
                           <=> has(r, pc, rc, "Curvature", "All")
                    /\ get(r, pc, rc, "All", "All") = total
                    /\ get(r, pc, "All", "All", "All")
                           = Sqrt(Mul(total, total))
                    /\ cr.riskType \notin VolatilityRiskTypes
                           => get(r, pc, "All", "All", "All") = ws
                    /\ get(r, "All", "All", "All", "All")
                           = get(r, pc, "All", "All", "All")

\* a volatility record alone, whose risk class total lies above its Vega
\* margin by the Curvature margin
VolatilityRecordAlone ==
    \E t \in DOMAIN regSensitivities_ :
        \E cr \in regSensitivities_[t] :
            /\ AloneIn(t, cr)
            /\ cr.riskType = "IRVol"
            /\ get(simmResults_[t], cr.productClass, "InterestRate",
                   "Curvature", "All") > 0
            /\ get(simmResults_[t], cr.productClass, "InterestRate", "All",
                   "All")
                  > get(simmResults_[t], cr.productClass, "InterestRate",
                        "Vega", "All")

\* a sequence in the opposite order
Reverse(s) == [i \in 1..Len(s) |-> s[Len(s) + 1 - i]]

\* the full double sum over the buckets: Sum_b K_b^2 + Sum_{b # c}
\* gamma(b, c) S_b S_c, the pair (b, c) with gamma(b, c) and the pair (c, b)
\* with gamma(c, b)
BucketDoubleSum(rt, range, names, k, s) ==
    SumOver([b \in names |-> Mul(k[b], k[b])], names)
    + SumOver(
          [p \in names \X names |->
              IF p[1] = p[2] THEN 0
              ELSE Mul(Mul(Clamp(s[p[1]], k[p[1]]), Clamp(s[p[2]], k[p[2]])),
                       correlation(
                           rt,
                           CHOOSE q \in Qualifiers(InBucket(range, p[1])) :
                               TRUE,
                           "", "",
                           rt,
                           CHOOSE q \in Qualifiers(InBucket(range, p[2])) :
                               TRUE,
                           "", ""))],
          names \X names)

\* the full double sum over the records of a bucket: Sum_k WS_k^2 +
\* Sum_{k # l} rho(k, l) f(k, l) WS_k WS_l
RecordDoubleSum(rt, concentrationRisk, ws, records) ==
    SumOver([cr \in records |-> Mul(ws[cr], ws[cr])], records)
    + SumOver(
          [p \in records \X records |->
              IF p[1] = p[2] THEN 0
              ELSE Mul(Mul(Mul(correlation(
                                   rt, p[1].qualifier, p[1].label1,
                                   p[1].label2,
                                   rt, p[2].qualifier, p[2].label1,
                                   p[2].label2),
                               ConcentrationRatio(
                                   concentrationRisk[p[1].bucket]
                                                    [p[1].qualifier],
                                   concentrationRisk[p[1].bucket]
                                                    [p[2].qualifier])),
                           ws[p[1]]), ws[p[2]])],
          records \X records)

\* what the fixed-point products of n elements may differ by when each
\* pair is taken twice instead of once and doubled
PairTolerance(n) == 4 * n * (n - 1)

\* the margins of margin() for the records range of the risk type rt agree
\* with the double sums and with the opposite order of iteration
SymmetricFor(rt, range, concentrationRisk, ws, others, k, s, total) ==
    /\ Abs(AcrossNames(SeqOf(others), k, s,
                       BucketCorrelations(rt, range, SeqOf(others)),
                       NoFactor(SeqOf(others)))
           - BucketDoubleSum(rt, range, others, k, s))
           <= PairTolerance(Cardinality(others))
    /\ total = Sqrt(Max(AcrossNames(
                            Reverse(SeqOf(others)), k, s,
                            BucketCorrelations(rt, range,
                                               Reverse(SeqOf(others))),
                            NoFactor(SeqOf(others))), 0))
                + (IF "Residual" \in DOMAIN k THEN k["Residual"] ELSE 0)
    /\ \A b \in DOMAIN k :
           /\ k[b] = marginOfBucket(rt, concentrationRisk, ws,
                                    Reverse(SeqOf(InBucket(DOMAIN ws, b))))
           /\ Abs(Mul(k[b], k[b])
                  - Max(RecordDoubleSum(rt, concentrationRisk, ws,
                                        InBucket(DOMAIN ws, b)), 0))
                  <= PairTolerance(Cardinality(InBucket(DOMAIN ws, b)))
                     + 2 * k[b] + Unit
SymmetricOfRange(rt, range, concentrationRisk, ws, total) ==
    SymmetricFor(
        rt, range, concentrationRisk, ws, BucketNames(range) \ {"Residual"},
        [b \in BucketNames(range) |->
            marginOfBucket(rt, concentrationRisk, ws,
                           SeqOf(InBucket(DOMAIN ws, b)))],
        [b \in BucketNames(range) |-> SumOver(ws, InBucket(DOMAIN ws, b))],
        total)

DoubleOf(cr) == [cr EXCEPT !.amountUsd = 2 * @]
Doubled(records, b, q) ==
    {IF cr.bucket = b /\ cr.qualifier = q THEN DoubleOf(cr) ELSE cr :
        cr \in records}

\* the concentration risks cr of a bucket are at least one and their ratios
\* are in (0, 1]
FactorsInRange(cr) ==
    /\ \A q \in DOMAIN cr : cr[q] >= Unit
    /\ \A k \in DOMAIN cr, l \in DOMAIN cr :
           /\ ConcentrationRatio(cr[k], cr[l]) > 0
           /\ ConcentrationRatio(cr[k], cr[l]) <= Unit

\* margin(): the factors of the records range of the risk type rt are in
\* range, and doubling a qualifier of a bucket lowers neither its
\* concentration risk nor a weighted sensitivity of it
MarginFactorsMonotone(rt, range) ==
    \A b \in BucketNames(range) :
        /\ FactorsInRange(marginConcentrationRisk(rt, range)[b])
        /\ \A q \in DOMAIN marginConcentrationRisk(rt, range)[b] :
               /\ marginConcentrationRisk(rt, Doubled(range, b, q))[b][q]
                      >= marginConcentrationRisk(rt, range)[b][q]
               /\ \A x \in WithQualifier(InBucket(range, b), q) :
                      Abs(marginWeightedSensis(
                              rt, Doubled(range, b, q),
                              marginConcentrationRisk(
                                  rt, Doubled(range, b, q)))[DoubleOf(x)])
                          >= Abs(marginWeightedSensis(
                                     rt, range,
                                     marginConcentrationRisk(rt, range))[x])

\* irDeltaMargin(): the same for the records of the interest rate delta
\* margin, of which counted enter the concentration risk
IrFactorsMonotone(records, counted) ==
    /\ FactorsInRange(irConcentrationRisk(Qualifiers(records), counted,
                                          "IRCurve"))
    /\ \A q \in Qualifiers(records) :
           /\ irConcentrationRisk(Qualifiers(records),
                                  Doubled(counted, "", q), "IRCurve")[q]
                  >= irConcentrationRisk(Qualifiers(records), counted,
                                         "IRCurve")[q]
           /\ \A x \in WithQualifier(records, q) :
                  Abs(irDeltaWeightedSensis(
                          Doubled(records, "", q),
                          irConcentrationRisk(
                              Qualifiers(records), Doubled(counted, "", q),
                              "IRCurve"))[DoubleOf(x)])
                      >= Abs(irDeltaWeightedSensis(
                                 records,
                                 irConcentrationRisk(
                                     Qualifiers(records), counted,
                                     "IRCurve"))[x])

\* the records the interest rate delta margin of a triple reads
IrDeltaRecords(t, pc) ==
    {x \in regSensitivities_[t] :
        /\ x.nettingSetDetails = t[2]
        /\ x.productClass = pc
        /\ x.riskType \in {"IRCurve", "XCcyBasis", "Inflation"}}

\* C25: for every calculated triple, every concentration risk factor that
\* margin() and irDeltaMargin() compute is at least one, every ratio
\* f(k, l) of two of them is in (0, 1], and with the amounts of a qualifier
\* doubled (the threshold unchanged) its concentration risk factor and the
\* absolute value of each of its weighted sensitivities are not lower.
ConcentrationRiskMonotone ==
    \A t \in DOMAIN regSensitivities_ :
        Calculated(t) =>
            \A pc \in Range(ProductClasses) :
                /\ \A rc \in MarginRiskClasses, mt \in {"Delta", "Vega"} :
                       \A rt \in RiskTypesRead(rc, mt) :
                           MarginFactorsMonotone(
                               rt, OfRiskType(regSensitivities_[t], t[2],
                                              pc, rt))
                /\ IrFactorsMonotone(
                       IrDeltaRecords(t, pc),
                       {x \in IrDeltaRecords(t, pc) :
                           x.riskType # "XCcyBasis"})

\* a calculated triple with two qualifiers in a bucket, one at the floor and
\* one above it, and an interest rate currency above the floor
ConcentrationAboveFloor ==
    \E t \in DOMAIN regSensitivities_ :
        /\ FullyCalculated(t)
        /\ \E b \in {"12"}, k \in {"ISSA"}, l \in {"ISSD"} :
               /\ b \in BucketNames(OfRiskType(regSensitivities_[t], t[2],
                                               "Equity", "EquityVol"))
               /\ {k, l} \subseteq
                      DOMAIN marginConcentrationRisk(
                                 "EquityVol",
                                 OfRiskType(regSensitivities_[t], t[2],
                                            "Equity", "EquityVol"))[b]
               /\ marginConcentrationRisk(
                      "EquityVol",
                      OfRiskType(regSensitivities_[t], t[2], "Equity",
                                 "EquityVol"))[b][k] = Unit
               /\ marginConcentrationRisk(
                      "EquityVol",
                      OfRiskType(regSensitivities_[t], t[2], "Equity",
                                 "EquityVol"))[b][l] > Unit
        /\ has(simmResults_[t], "RatesFX", "InterestRate", "Delta", "USD")
        /\ irConcentrationRisk(
               {"USD"}, IrDeltaRecords(t, "RatesFX"), "IRCurve")["USD"] > Unit

\* the skew theta = min(sum / sumAbs, 0) of a pair <<sum, sumAbs>> of the sum
\* of the weighted sensitivities and the sum of their absolute values is
\* in [-1, 0] when it is computed, which is when sumAbs is not zero
SkewBounded(g) ==
    ~close_enough(g[2], 0) =>
        /\ g[2] > 0
        /\ Min(Quot(g[1], g[2]), 0) >= -Unit
        /\ Min(Quot(g[1], g[2]), 0) <= 0
        /\ lambda(Min(Quot(g[1], g[2]), 0)) >= Unit

\* the pairs <<sum, sumAbs>> of curvatureMargin() for the records range:
\* of the buckets other than Residual, and of the Residual bucket
CurvatureGroups(range, wsOuter, rfLabels) ==
    {<<SumOver(wsOuter, range \ InBucket(range, "Residual")),
       SumOver([b \in BucketNames(range) |->
                   curvatureSumAbs(wsOuter, InBucket(range, b), rfLabels)],
               BucketNames(range) \ {"Residual"})>>,
     <<SumOver(wsOuter, InBucket(range, "Residual")),
       curvatureSumAbs(wsOuter, InBucket(range, "Residual"), rfLabels)>>}
CurvatureGroupsOf(nsd, pc, rt, side, records) ==
    CurvatureGroups(
        OfRiskType(records, nsd, pc, rt),
        curvatureOuter(rt, curvatureInner(rt,
                                          OfRiskType(records, nsd, pc, rt),
                                          Multiplier(side))),
        rt \in {"CreditVol", "CreditVolNonQ"})

\* the pair <<sumWs, sumAbsWs>> of irCurvatureMargin() for the IRVol records
\* ir and the InflationVol records inf
IrCurvatureGroup(qualifiers, ir, inf, ws) ==
    <<SumOver(ws, ir \cup inf),
      SumOver([q \in qualifiers |->
                  SumOver([cr \in ir |-> Abs(ws[cr])], WithQualifier(ir, q))
                  + Abs(SumOver(ws, WithQualifier(inf, q)))], qualifiers)>>
IrCurvatureGroupOf(nsd, pc, side, records) ==
    IrCurvatureGroup(
        QualifiersOf(records, nsd, pc, {"IRVol", "InflationVol"}),
        OfRiskType(records, nsd, pc, "IRVol"),
        IF irCurvatureWithInflation
        THEN OfRiskType(records, nsd, pc, "InflationVol") ELSE {},
        irCurvatureWeightedSensis(
            OfRiskType(records, nsd, pc, "IRVol")
                \cup OfRiskType(records, nsd, pc, "InflationVol"),
            Multiplier(side)))

\* the records of the Residual bucket
InResidual(records) == {cr \in records : cr.bucket = "Residual"}

\* C26: in the results of every calculated triple every Curvature entry is
\* at least zero; every skew theta the curvature calculators compute is in
\* [-1, 0]; where the sum of the absolute weighted sensitivities is zero the
\* total is zero and no quotient is taken; and every curvature total of
\* curvatureMargin() is the total of the records outside the Residual
\* bucket plus the total of the Residual records taken alone, which is the
\* "Residual" entry.
CurvatureNonNegative ==
    \A t \in DOMAIN regSensitivities_ :
        Calculated(t) =>
            /\ \A key \in DOMAIN ResultsOf(simmResults_, t) :
                   key[3] = "Curvature" =>
                       ResultsOf(simmResults_, t)[key] >= 0
            /\ \A pc \in Range(ProductClasses) :
                   /\ SkewBounded(IrCurvatureGroupOf(t[2], pc, t[1],
                                                     regSensitivities_[t]))
                   /\ /\ has(ResultsOf(simmResults_, t), pc, "InterestRate",
                             "Curvature", "All")
                      /\ close_enough(
                             IrCurvatureGroupOf(t[2], pc, t[1],
                                                regSensitivities_[t])[2], 0)
                      => get(ResultsOf(simmResults_, t), pc, "InterestRate",
                             "Curvature", "All") = 0
                   /\ \A rc \in MarginRiskClasses :
                          \A rt \in RiskTypesRead(rc, "Curvature") :
                              /\ \A g \in CurvatureGroupsOf(
                                               t[2], pc, rt, t[1],
                                               regSensitivities_[t]) :
                                     SkewBounded(g)
                              /\ has(ResultsOf(simmResults_, t), pc, rc,
                                     "Curvature", "All") =>
                                     get(ResultsOf(simmResults_, t), pc, rc,
                                         "Curvature", "All")
                                         = CurvatureUnscaled(
                                               t[2], pc, rt, t[1],
                                               regSensitivities_[t]
                                                   \ InResidual(
                                                       regSensitivities_[t]))
                                           + CurvatureUnscaled(
                                                 t[2], pc, rt, t[1],
                                                 InResidual(
                                                     regSensitivities_[t]))
                              /\ has(ResultsOf(simmResults_, t), pc, rc,
                                     "Curvature", "Residual") =>
                                     get(ResultsOf(simmResults_, t), pc, rc,
                                         "Curvature", "Residual")
                                         = CurvatureUnscaled(
                                               t[2], pc, rt, t[1],
                                               InResidual(
                                                   regSensitivities_[t]))

\* a side whose curvature sensitivities are all negative: two buckets whose
\* sum with lambda is below zero and a total of zero, beside a Residual
\* entry
CurvatureAtTheFloor ==
    \E t \in DOMAIN simmResults_ :
        /\ FullyCalculated(t)
        /\ has(simmResults_[t], "Equity", "Equity", "Curvature", "1")
        /\ has(simmResults_[t], "Equity", "Equity", "Curvature", "Residual")
        /\ get(simmResults_[t], "Equity", "Equity", "Curvature", "1") > 0
        /\ get(simmResults_[t], "Equity", "Equity", "Curvature", "Residual")
               > 0
        /\ \E g \in CurvatureGroupsOf(t[2], "Equity", "EquityVol", t[1],
                                      regSensitivities_[t]) :
               g[2] > 0 /\ g[1] = -g[2]

\* the concentration risk factor of the currency q in the interest rate
\* delta margin: from the IRCurve and the Inflation sensitivities
IrDeltaFactor(records, q) ==
    Max(Unit,
        Sqrt(Abs(Quot(
            SumOver([cr \in records |-> cr.amountUsd],
                    {cr \in records :
                        /\ cr.qualifier = q
                        /\ cr.riskType \in {"IRCurve", "Inflation"}}),
            concentrationThreshold("IRCurve", q)))))

\* the weighted sensitivities: IRCurve and Inflation scaled by the factor,
\* XCcyBasis not
IrDeltaWs(records) ==
    [cr \in records |->
        IF cr.riskType = "XCcyBasis"
        THEN Mul(weight(cr.riskType, cr.qualifier, cr.label1), cr.amountUsd)
        ELSE Mul(Mul(weight(cr.riskType, cr.qualifier, cr.label1),
                     cr.amountUsd),
                 IrDeltaFactor(records, cr.qualifier))]

\* the one margin K_b of the currency q from the records of the three risk
\* types
IrDeltaOfCurrency(records, q) ==
    irDeltaOfQualifier(
        q, IrDeltaWs(records),
        SeqOf({cr \in records : cr.qualifier = q /\ cr.riskType = "IRCurve"}),
        {cr \in records : cr.qualifier = q /\ cr.riskType = "Inflation"},
        {cr \in records : cr.qualifier = q /\ cr.riskType = "XCcyBasis"})

\* C27: the calculation fails with the error of irDeltaMargin() exactly on
\* inputs with two XCcyBasis or two Inflation records of a currency, and no
\* triple with such records is ever calculated; in the results of a
\* calculated triple the Interest Rate Delta entries are one per currency
\* of the three risk types and "All", and the entry of a currency is the
\* margin K_b of its IRCurve, Inflation and XCcyBasis records together, with
\* the concentration risk factor taken from the IRCurve and Inflation
\* amounts and applied to the IRCurve and Inflation weighted sensitivities
\* only.
IrDeltaOfThreeRiskTypes ==
    /\ error = "irDeltaMargin" =>
           /\ phase = "failed"
           /\ \E cr \in args.simmNetSensitivities :
                  FatalDuplicate(cr.nettingSetDetails,
                                 args.simmNetSensitivities)
    /\ phase \in {"winning", "done", "final"} =>
           \A cr \in args.simmNetSensitivities :
               ~FatalDuplicate(cr.nettingSetDetails,
                               args.simmNetSensitivities)
    /\ \A t \in DOMAIN regSensitivities_ :
           Calculated(t) =>
               /\ ~FatalDuplicate(t[2], regSensitivities_[t])
               /\ \A pc \in Range(ProductClasses) :
                      has(ResultsOf(simmResults_, t), pc, "InterestRate",
                          "Delta", "All") =>
                          /\ DOMAIN EntriesOf(ResultsOf(simmResults_, t), pc,
                                              "InterestRate", "Delta")
                                 = Qualifiers(IrDeltaRecords(t, pc))
                                       \cup {"All"}
                          /\ \A q \in Qualifiers(IrDeltaRecords(t, pc)) :
                                 get(ResultsOf(simmResults_, t), pc,
                                     "InterestRate", "Delta", q)
                                     = IrDeltaOfCurrency(
                                           IrDeltaRecords(t, pc), q)

\* a currency with an IRCurve, an Inflation and an XCcyBasis record and a
\* concentration risk factor above one
ThreeRiskTypesOfOneCurrency ==
    \E t \in DOMAIN simmResults_ :
        /\ FullyCalculated(t)
        /\ {cr.riskType : cr \in WithQualifier(IrDeltaRecords(t, "RatesFX"),
                                               "USD")}
               = {"IRCurve", "Inflation", "XCcyBasis"}
        /\ IrDeltaFactor(IrDeltaRecords(t, "RatesFX"), "USD") > Unit
        /\ has(simmResults_[t], "RatesFX", "InterestRate", "Delta", "USD")

\* the regulations of the record cr under which addCrifRecord inserts it on
\* a side
KeptRegulations(cr, side) ==
    {r \in RegulationList(cr, side) :
        /\ r # "Excluded"
        /\ ~(/\ r = "Unspecified"
             /\ args.enforceIMRegulations
             /\ RegulationsSpecified(cr.nettingSetDetails))}

\* the record cr of the input is in the sensitivity set of the regulation r
\* on a side: inserted under r, or inserted under CFTC and added to the SEC
\* set of its netting set, which held no equal record
EnteredSet(cr, side, r) ==
    \/ r \in KeptRegulations(cr, side)
    \/ /\ r = "SEC"
       /\ "CFTC" \in KeptRegulations(cr, side)
       /\ \E x \in NonSchedule :
              /\ x.nettingSetDetails = cr.nettingSetDetails
              /\ "SEC" \in KeptRegulations(x, side)
       /\ \A x \in NonSchedule :
              RecordKey(x) = RecordKey(cr) =>
                  "SEC" \notin KeptRegulations(x, side)

\* C28: once populateFinalResults has run, for every (side, netting set)
\* whose winning regulation has a calculated margin the final trade ids of
\* the side hold the trade id of every record of the input, other than SIMM
\* parameters, that is in the sensitivity set of the winning regulation,
\* those added from CFTC to SEC included; and every final trade id of a
\* side is recorded against the winning regulation of one of its netting
\* sets.
FinalTradeIdsOfWinner ==
    FinalResultsPopulated =>
        /\ \A pr \in DOMAIN winningRegulations_ :
               <<pr[1], pr[2], winningRegulations_[pr]>>
                   \in DOMAIN simmResults_ =>
                   /\ pr[1] \in DOMAIN finalTradeIds_
                   /\ \A cr \in NonSchedule :
                          (/\ ~isSimmParameter(cr)
                           /\ cr.nettingSetDetails = pr[2]
                           /\ EnteredSet(cr, pr[1], winningRegulations_[pr]))
                          => cr.tradeId \in finalTradeIds_[pr[1]]
        /\ \A side \in DOMAIN finalTradeIds_ :
               \A tid \in finalTradeIds_[side] :
                   \E pr \in DOMAIN winningRegulations_ :
                       /\ pr[1] = side
                       /\ <<side, pr[2], winningRegulations_[pr]>>
                              \in DOMAIN tradeIds_
                       /\ tid \in tradeIds_[<<side, pr[2],
                                              winningRegulations_[pr]>>]

\* populateResults has run for the triple
Populated(t) ==
    /\ t \in DOMAIN simmResults_
    /\ \/ t \notin Range(calcQueue)
       \/ t = Head(calcQueue) /\ calcStep = "calcAddMargin"

\* the key "All" of the bucket is present in the results exactly when one
\* of the keys is, and its margin is the sum of theirs
SumsUp(results, key, keys) ==
    /\ key \in DOMAIN results <=> keys \cap DOMAIN results # {}
    /\ key \in DOMAIN results =>
           results[key] = SumOver(results, keys \cap DOMAIN results)

\* C29: in the results of every triple that populateResults has run for,
\* the entry (pc, rc, All, "All") is the sum over the margin types of
\* (pc, rc, mt, "All"), the entry (All, rc, mt, "All") is the sum over the
\* product classes of (pc, rc, mt, "All"), and the entry
\* (All, rc, All, "All") is both the sum over the product classes of
\* (pc, rc, All, "All") and the sum over the margin types of
\* (All, rc, mt, "All"); each of them is present exactly when one of the
\* entries it sums is.
AggregatesAgree ==
    \A t \in DOMAIN simmResults_ :
        Populated(t) =>
            \A rc \in Range(RiskClasses) :
                /\ \A pc \in Range(ProductClasses) :
                       SumsUp(simmResults_[t], Key(pc, rc, "All", "All"),
                              {Key(pc, rc, mt, "All") :
                                  mt \in Range(MarginTypes)})
                /\ \A mt \in Range(MarginTypes) :
                       SumsUp(simmResults_[t], Key("All", rc, mt, "All"),
                              {Key(pc, rc, mt, "All") :
                                  pc \in Range(ProductClasses)})
                /\ SumsUp(simmResults_[t], Key("All", rc, "All", "All"),
                          {Key(pc, rc, "All", "All") :
                              pc \in Range(ProductClasses)})
                /\ SumsUp(simmResults_[t], Key("All", rc, "All", "All"),
                          {Key("All", rc, mt, "All") :
                              mt \in Range(MarginTypes)})

\* results with the interest rate risk class in two product classes and
\* with three margin types in one of them
TwoProductClassesThreeMarginTypes ==
    \E t \in DOMAIN simmResults_ :
        /\ Populated(t)
        /\ \A mt \in {"Delta", "Vega", "Curvature"} :
               /\ has(simmResults_[t], "RatesFX", "InterestRate", mt, "All")
               /\ get(simmResults_[t], "RatesFX", "InterestRate", mt, "All")
                      > 0
        /\ has(simmResults_[t], "Credit", "InterestRate", "All", "All")
        /\ get(simmResults_[t], "Credit", "InterestRate", "All", "All") > 0
        /\ has(simmResults_[t], "All", "InterestRate", "All", "All")

\* the triple has a record of a volatility risk type of the risk class rc
\* in the product class pc
HasVolatilityRecord(t, pc, rc) ==
    \E cr \in regSensitivities_[t] :
        /\ cr.nettingSetDetails = t[2]
        /\ cr.productClass = pc
        /\ cr.riskType \in RiskTypesRead(rc, "Vega")

\* C30: in the results of every calculated triple, for each product class
\* and risk class the entry (pc, rc, Vega, "All") is present exactly when
\* the entry (pc, rc, Curvature, "All") is, and both are present exactly
\* when the triple has a record of a volatility risk type of the risk class
\* in the product class.
VegaWithCurvature ==
    \A t \in DOMAIN regSensitivities_ :
        Calculated(t) =>
            \A pc \in Range(ProductClasses), rc \in Range(RiskClasses) :
                /\ has(ResultsOf(simmResults_, t), pc, rc, "Vega", "All")
                       <=> has(ResultsOf(simmResults_, t), pc, rc,
                               "Curvature", "All")
                /\ has(ResultsOf(simmResults_, t), pc, rc, "Vega", "All")
                       <=> HasVolatilityRecord(t, pc, rc)

\* a triple whose only interest rate volatility is an inflation volatility,
\* with Vega and Curvature entries for it, and with an Equity delta that has
\* neither
VegaAndCurvatureOfInflationVol ==
    \E t \in DOMAIN simmResults_ :
        /\ FullyCalculated(t)
        /\ \A cr \in regSensitivities_[t] : cr.riskType # "IRVol"
        /\ has(simmResults_[t], "RatesFX", "InterestRate", "Vega", "All")
        /\ has(simmResults_[t], "RatesFX", "InterestRate", "Curvature",
               "All")
        /\ has(simmResults_[t], "Equity", "Equity", "Delta", "All")
        /\ ~has(simmResults_[t], "Equity", "Equity", "Vega", "All")
        /\ ~has(simmResults_[t], "Equity", "Equity", "Curvature", "All")

====
